---- MODULE Spec2Model ----
(***************************************************************************)
(* Document ingestion engine of startup_analyst_agent: doc_ingestion_tool  *)
(* (format resolution, backend dispatch, the sync/batch OCR executor,      *)
(* scratch files for remote documents, result aggregation into the shared  *)
(* tool context) together with the two other tools that write the shared   *)
(* accumulator state['startup_information'].                               *)
(*                                                                         *)
(* Strings that the code concatenates (texts, the separator) are sequences *)
(* of characters; a locator is the triple the resolver takes it apart      *)
(* into (scheme, file stem, raw extension).  Every call to an external     *)
(* collaborator is recorded in log with its outcome; the collaborator's    *)
(* outcome (a value or an exception) is chosen by the environment.         *)
(***************************************************************************)
EXTENDS Integers, Sequences, FiniteSets, TLC

VARIABLES
    state,     \* tool_context.state: a function from the keys present to values
    pc,        \* position of the running invocation ("idle" before the first)
    tool,      \* which tool the current/last invocation belongs to
    file_path, \* the locator argument of the current/last invocation
    text,      \* extracted_text of the current invocation
    log,       \* calls to external collaborators made by the current invocation
    listing,   \* what bucket.list_blobs returned in the current invocation
    exc,       \* the exception raised inside the current invocation, if any
    scratch,   \* the scratch files (NamedTemporaryFile) that exist on disk
    result,    \* the record the current/last invocation returned
    pre,       \* tool_context.state as it was when the invocation started
    calls,     \* invocations started in this session
    runs,      \* the analyzer runs made so far: function, arguments, record
    bucket,    \* the result artifacts that batch jobs have left in object storage
    workers    \* invocations that run at the same time on the shared context

vars == <<state, pc, tool, file_path, text, log, listing, exc, scratch, result, pre, calls,
          runs, bucket, workers>>

----------------------------------------------------------------------------
(* Bounds *)

MaxCalls == 1         \* invocations of doc_ingestion_tool under Spec
MaxSessionCalls == 2  \* invocations of the three tools under Session
MaxBlobs == 2         \* artifacts a result listing holds
MaxLen == 3           \* characters of the texts enumerated under Analysis
MaxWorkers == 2       \* invocations that can run at the same time
MaxRuns == 2          \* analyzer runs compared under Analysis

----------------------------------------------------------------------------
(* Values *)

Texts == {<<>>, <<"a">>, <<"b">>}

\* "\n\n\n\n\n", the separator of doc_ingestion_tool and audio_analysis_tool
Separator == <<"\n", "\n", "\n", "\n", "\n">>

Schemes == {"local", "gs://", "https://storage.googleapis.com/"}
RawExtensions == {".pdf", ".tiff", ".png", ".jpg", ".jpeg", ".docx",
                  ".eml", ".msg", ".txt", ".TXT", ".xyz", ""}
Locators == [scheme : Schemes, stem : {"deck"}, ext : RawExtensions]

\* a file_path argument that is not a string (the model's only ill-typed input)
NotAString == [scheme |-> "none", stem |-> "", ext |-> ""]

NoResult == [status |-> "none"]
NoExc == [type |-> "none", msg |-> <<>>]

Ev(op, ok, val) == [op |-> op, ok |-> ok, val |-> val]
Did(op) == Ev(op, TRUE, <<>>)

IsPrefix(s, t) == Len(s) <= Len(t) /\ SubSeq(t, 1, Len(s)) = s

Put(s, k, v) == [x \in (DOMAIN s) \cup {k} |-> IF x = k THEN v ELSE s[x]]

\* an invocation that has not been entered
NotStarted == [pc |-> "idle", seen |-> <<>>, status |-> "none", overlapped |-> FALSE]

NoWorkers == [w \in 1..MaxWorkers |-> NotStarted]

----------------------------------------------------------------------------
(* Format resolution: doc_ingestion_tool lines 47-66 *)

is_gcs_url(fp) == fp.scheme \in {"gs://", "https://storage.googleapis.com/"}

\* the public URL form is rewritten to the gs:// form
gcs_uri(fp) ==
    IF fp.scheme = "https://storage.googleapis.com/"
    THEN [fp EXCEPT !.scheme = "gs://"]
    ELSE fp

\* str.lower() on the extensions of the model
Lower(e) == IF e = ".TXT" THEN ".txt" ELSE e

file_extension(fp) == Lower(fp.ext)

filename(fp) == <<fp.stem, fp.ext>>

supported_formats ==
    <<".pdf", ".tiff", ".png", ".jpg", ".jpeg", ".docx", ".eml", ".msg", ".txt">>

----------------------------------------------------------------------------
(* Exceptions.  A helper's  except Exception as e: raise Exception(f"...: {e}")
   turns whatever was raised into a plain Exception whose message is the
   helper's prefix followed by the original message. *)

SizeLimit == [type |-> "InvalidArgument", msg |-> <<"Document pages exceed the limit">>]
Timeout == [type |-> "TimeoutError", msg |-> <<"Operation did not complete within the designated timeout">>]
JobFailed == [type |-> "GoogleAPICallError", msg |-> <<"batch job failed">>]
Forbidden == [type |-> "Forbidden", msg |-> <<"403">>]
NotFound == [type |-> "FileNotFoundError", msg |-> <<"No such file or directory">>]
BadFile == [type |-> "ValueError", msg |-> <<"not a valid file of this format">>]
BadJson == [type |-> "JSONDecodeError", msg |-> <<"Expecting value">>]
NoStartswith == [type |-> "AttributeError", msg |-> <<"object has no attribute 'startswith'">>]

Wrap(prefix, e) == [type |-> "Exception", msg |-> <<prefix>> \o e.msg]

----------------------------------------------------------------------------
(* The backend table of doc_ingestion_tool, lines 93-147 *)

\* a table whose last branch is the text reader instead of the rejection
ExtractionBackendTextByDefault(ext) ==
    CASE ext \in {".pdf", ".tiff"} -> "ocr_pdf"
      [] ext \in {".png", ".jpeg", ".jpg"} -> "ocr_img"
      [] ext = ".docx" -> "docx"
      [] ext = ".eml" -> "eml"
      [] ext = ".msg" -> "msg"
      [] OTHER -> "txt"

\* a table that sends .msg files to the eml parser
ExtractionBackendMsgAsEml(ext) ==
    CASE ext \in {".pdf", ".tiff"} -> "ocr_pdf"
      [] ext \in {".png", ".jpeg", ".jpg"} -> "ocr_img"
      [] ext = ".docx" -> "docx"
      [] ext \in {".eml", ".msg"} -> "eml"
      [] ext = ".txt" -> "txt"
      [] OTHER -> "unsupported"

ExtractionBackend(ext) ==
    CASE ext \in {".pdf", ".tiff"} -> "ocr_pdf"
      [] ext \in {".png", ".jpeg", ".jpg"} -> "ocr_img"
      [] ext = ".docx" -> "docx"
      [] ext = ".eml" -> "eml"
      [] ext = ".msg" -> "msg"
      [] ext = ".txt" -> "txt"
      [] OTHER -> "unsupported"

processing_method(backend, gcs) ==
    CASE backend = "ocr_pdf" -> IF gcs THEN "Google Cloud Document AI (PDF/TIFF from GCS)"
                                       ELSE "Google Cloud Document AI (PDF/TIFF)"
      [] backend = "ocr_img" -> IF gcs THEN "Google Cloud Document AI (Image from GCS)"
                                       ELSE "Google Cloud Document AI (Image)"
      [] backend = "docx" -> IF gcs THEN "python-docx (from GCS)" ELSE "python-docx"
      [] backend = "eml" -> IF gcs THEN "Python email library (from GCS)"
                                   ELSE "Python email library"
      [] backend = "msg" -> IF gcs THEN "extract-msg (from GCS)" ELSE "extract-msg"
      [] backend = "txt" -> IF gcs THEN "Direct text reading (from GCS)"
                                   ELSE "Direct text reading"

\* the message prefix of each helper's wrapping  raise Exception(...)
ErrorPrefix(backend, gcs) ==
    CASE backend = "ocr_pdf" -> IF gcs THEN "Error processing PDF from GCS with Document AI (extended mode)"
                                       ELSE "Error processing PDF with Document AI (extended mode)"
      [] backend = "ocr_img" -> IF gcs THEN "Error processing image from GCS with Document AI"
                                       ELSE "Error processing image with Document AI"
      [] backend = "docx" -> IF gcs THEN "Error processing DOCX file from GCS"
                                    ELSE "Error processing DOCX file"
      [] backend = "eml" -> IF gcs THEN "Error processing EML file from GCS"
                                   ELSE "Error processing EML file"
      [] backend = "msg" -> IF gcs THEN "Error processing MSG file from GCS"
                                   ELSE "Error processing MSG file"
      [] backend = "txt" -> IF gcs THEN "Error processing TXT file from GCS"
                                   ELSE "Error processing TXT file"

\* where control goes once the table has picked a helper
EntryPoint(backend, gcs) ==
    CASE backend = "ocr_pdf" -> "ocr_pdf"
      [] backend = "ocr_img" -> IF gcs THEN "scratch" ELSE "ocr_img"
      [] backend \in {"docx", "eml", "msg"} -> IF gcs THEN "scratch" ELSE "parse"
      [] backend = "txt" -> IF gcs THEN "txt_gcs" ELSE "parse"

backend_of(fp) == ExtractionBackend(file_extension(fp))

----------------------------------------------------------------------------
(* Characters.  A text is a sequence of characters; the classes below are
   what Python's str methods and the re module make of the characters of
   the model. *)

Letters ==
    {"a", "b", "c", "d", "e", "f", "g", "h", "i", "j", "k", "l", "m", "n", "o",
     "p", "q", "r", "s", "t", "u", "v", "w", "x", "y", "z", "C", "V"}
Digits == {"1", "2"}
\* ' ', '\t' and '\n'
Blanks == {" ", "\t", "\n"}
\* a letter outside ASCII: it matches \w and [^\x00-\x7F], not [a-zA-Z]
NonAscii == {"U+00E9"}
Punctuation == {".", "!", "?", "@", ":", "/", "-"}
Chars == Letters \cup Digits \cup Blanks \cup NonAscii \cup Punctuation

\* \w and \s of the re module
IsWordChar(c) == c \in Letters \cup Digits \cup NonAscii
IsSpace(c) == c \in Blanks

\* str.lower()
lower(c) == CASE c = "C" -> "c" [] c = "V" -> "v" [] OTHER -> c
text_lower(t) == [i \in DOMAIN t |-> lower(t[i])]

\* w in t, for strings
In(w, t) == \E i \in 1..(Len(t) - Len(w) + 1) : SubSeq(t, i, i + Len(w) - 1) = w

\* not text or not text.strip()
IsBlank(t) == \A i \in DOMAIN t : IsSpace(t[i])

Range(s) == {s[i] : i \in DOMAIN s}

\* text.count of the characters of a class
count(t, S) == Cardinality({i \in DOMAIN t : t[i] \in S})

\* length of the longest run of characters of class S that starts at s
Run(t, s, S) ==
    CHOOSE n \in 0..(Len(t) - s + 1) :
        /\ \A i \in s..(s + n - 1) : t[i] \in S
        /\ (s + n <= Len(t)) => t[s + n] \notin S

\* the non-empty pieces text falls into when it is cut at the characters of D:
\* str.split() for D = whitespace, re.split(r'[.!?]+', text) without its
\* empty strings for D = {'.', '!', '?'}
RECURSIVE pieces(_, _)
pieces(t, D) ==
    IF t = <<>> THEN <<>>
    ELSE IF t[1] \in D THEN pieces(Tail(t), D)
    ELSE LET n == Run(t, 1, Chars \ D)
         IN  <<SubSeq(t, 1, n)>> \o pieces(SubSeq(t, n + 1, Len(t)), D)

split(t) == pieces(t, Blanks)

\* text.split('\n\n')
RECURSIVE split_blank_line(_)
split_blank_line(t) ==
    IF In(<<"\n", "\n">>, t)
    THEN LET i == CHOOSE k \in 1..(Len(t) - 1) :
                      /\ t[k] = "\n" /\ t[k + 1] = "\n"
                      /\ \A j \in 1..(k - 1) : ~(t[j] = "\n" /\ t[j + 1] = "\n")
         IN  <<SubSeq(t, 1, i - 1)>> \o split_blank_line(SubSeq(t, i + 2, Len(t)))
    ELSE <<t>>

\* len([p for p in ps if p.strip()])
count_nonblank(ps) == Cardinality({i \in DOMAIN ps : ~IsBlank(ps[i])})

\* a / b as the fraction it is
Ratio(a, b) == <<a, b>>

Max(a, b) == IF a >= b THEN a ELSE b
Min(a, b) == IF a <= b THEN a ELSE b

----------------------------------------------------------------------------
(* Helpers of the analyzers: _detect_language, _generate_document_title and
   _calculate_readability *)

\* lines 948-950: the word lists, with their repetitions
stop_words(language) ==
    CASE language = "english" ->
        <<<<"t", "h", "e">>, <<"a", "n", "d">>, <<"o", "r">>, <<"b", "u", "t">>,
          <<"i", "n">>, <<"o", "n">>, <<"a", "t">>, <<"t", "o">>, <<"f", "o", "r">>,
          <<"o", "f">>, <<"w", "i", "t", "h">>, <<"b", "y">>>>
      [] language = "spanish" ->
        <<<<"e", "l">>, <<"l", "a">>, <<"d", "e">>, <<"q", "u", "e">>, <<"y">>,
          <<"a">>, <<"e", "n">>, <<"u", "n">>, <<"e", "s">>, <<"s", "e">>,
          <<"n", "o">>, <<"t", "e">>, <<"l", "o">>, <<"l", "e">>>>
      [] language = "french" ->
        <<<<"l", "e">>, <<"l", "a">>, <<"d", "e">>, <<"e", "t">>, <<"U+00E0">>,
          <<"u", "n">>, <<"i", "l">>, <<"U+00EA", "t", "r", "e">>, <<"e", "t">>,
          <<"e", "n">>, <<"a", "v", "o", "i", "r">>, <<"q", "u", "e">>,
          <<"p", "o", "u", "r">>>>

\* lines 953-955: sum(1 for word in words if word in text_lower)
stop_word_count(language, t) ==
    Cardinality({i \in DOMAIN stop_words(language) :
                    In(stop_words(language)[i], text_lower(t))})

\* lines 946-964
_detect_language(t) ==
    LET english_count == stop_word_count("english", t)
        spanish_count == stop_word_count("spanish", t)
        french_count == stop_word_count("french", t)
    IN  IF english_count > spanish_count /\ english_count > french_count THEN "english"
        ELSE IF spanish_count > french_count THEN "spanish"
        ELSE IF french_count > 0 THEN "french"
        ELSE "unknown"

\* text.split('\n'): the lines, the empty ones included
RECURSIVE split_lines(_)
split_lines(t) ==
    IF \A i \in DOMAIN t : t[i] # "\n" THEN <<t>>
    ELSE LET i == CHOOSE k \in DOMAIN t : t[k] = "\n" /\ \A j \in 1..(k - 1) : t[j] # "\n"
         IN  <<SubSeq(t, 1, i - 1)>> \o split_lines(SubSeq(t, i + 1, Len(t)))

\* str.strip()
strip(l) ==
    IF IsBlank(l) THEN <<>>
    ELSE LET solid == {i \in DOMAIN l : ~IsSpace(l[i])}
         IN  SubSeq(l, CHOOSE i \in solid : \A j \in solid : i <= j,
                       CHOOSE i \in solid : \A j \in solid : j <= i)

\* str.isupper(): there is a cased character and no cased one is lower-case
isupper(l) ==
    /\ \E i \in DOMAIN l : l[i] \in Letters \cup NonAscii
    /\ \A i \in DOMAIN l : l[i] \in Letters \cup NonAscii => l[i] \in {"C", "V"}

\* lines 1225-1235; the title is a line of the text or, as a text of one
\* piece, the file name without its extension
_generate_document_title(t, fname) ==
    LET all == split_lines(t)
        lines == SubSeq(all, 1, Min(10, Len(all)))
        fit == {i \in DOMAIN lines :
                   /\ Len(strip(lines[i])) > 10
                   /\ Len(strip(lines[i])) < 100
                   /\ ~isupper(strip(lines[i]))}
    IN  IF fit = {} THEN <<fname[1]>>
        ELSE strip(lines[CHOOSE i \in fit : \A j \in fit : i <= j])

\* len(re.split(r'[.!?]+', text)): one more than the runs of '.', '!', '?'
\* in the text, the fragments before the first, between two and after the
\* last run being counted whether they are empty or not
split_count(t) ==
    1 + Cardinality({i \in DOMAIN t :
                        /\ t[i] \in {".", "!", "?"}
                        /\ i > 1 => t[i - 1] \notin {".", "!", "?"}})

\* lines 1081-1098, in hundredths:
\* round(0.5 * len(words) / len(sentences) + 0.3 * sum(len(word)) / len(words), 2)
_calculate_readability(t) ==
    LET sentences == split_count(t)
        words == Len(split(t))
        letters == Len(t) - count(t, Blanks)
    IN  IF sentences = 0 \/ words = 0 THEN 0
        ELSE (2 * (50 * words * words + 30 * letters * sentences) + sentences * words)
                 \div (2 * sentences * words)

----------------------------------------------------------------------------
(* Content analyzer: _analyze_document_content and its helpers *)

\* what str(e) is for an exception raised inside an analyzer
AnalysisFault == [type |-> "RuntimeError", msg |-> <<"internal error">>]

\* _classify_document_type lines 973-984: the cues looked for in the
\* lower-cased text, in the order of the elif chain
text_cues ==
    <<[type |-> "pitch_deck", words |-> <<
          <<"p", "i", "t", "c", "h", " ", "d", "e", "c", "k">>,
          <<"p", "i", "t", "c", "h", " ", "d", "e", "c", "k">>,
          <<"i", "n", "v", "e", "s", "t", "o", "r", " ", "p", "r", "e", "s", "e", "n", "t", "a", "t", "i", "o", "n">>,
          <<"f", "u", "n", "d", "i", "n", "g", " ", "d", "e", "c", "k">>>>],
      [type |-> "business_plan", words |-> <<
          <<"b", "u", "s", "i", "n", "e", "s", "s", " ", "p", "l", "a", "n">>,
          <<"b", "u", "s", "i", "n", "e", "s", "s", " ", "p", "r", "o", "p", "o", "s", "a", "l">>,
          <<"e", "x", "e", "c", "u", "t", "i", "v", "e", " ", "s", "u", "m", "m", "a", "r", "y">>>>],
      [type |-> "financial_document", words |-> <<
          <<"f", "i", "n", "a", "n", "c", "i", "a", "l", " ", "s", "t", "a", "t", "e", "m", "e", "n", "t">>,
          <<"i", "n", "c", "o", "m", "e", " ", "s", "t", "a", "t", "e", "m", "e", "n", "t">>,
          <<"b", "a", "l", "a", "n", "c", "e", " ", "s", "h", "e", "e", "t">>,
          <<"c", "a", "s", "h", " ", "f", "l", "o", "w">>>>],
      [type |-> "legal_document", words |-> <<
          <<"c", "o", "n", "t", "r", "a", "c", "t">>,
          <<"a", "g", "r", "e", "e", "m", "e", "n", "t">>,
          <<"t", "e", "r", "m", "s", " ", "a", "n", "d", " ", "c", "o", "n", "d", "i", "t", "i", "o", "n", "s">>,
          <<"l", "e", "g", "a", "l", " ", "d", "o", "c", "u", "m", "e", "n", "t">>>>],
      [type |-> "resume", words |-> <<
          <<"r", "e", "s", "u", "m", "e">>,
          <<"c", "v">>,
          <<"c", "u", "r", "r", "i", "c", "u", "l", "u", "m", " ", "v", "i", "t", "a", "e">>,
          <<"p", "e", "r", "s", "o", "n", "a", "l", " ", "p", "r", "o", "f", "i", "l", "e">>>>],
      [type |-> "email", words |-> <<
          <<"e", "m", "a", "i", "l">>,
          <<"m", "e", "s", "s", "a", "g", "e">>,
          <<"c", "o", "r", "r", "e", "s", "p", "o", "n", "d", "e", "n", "c", "e">>>>]>>

\* _categorize_content lines 1031-1044
category_cues ==
    <<[category |-> "financial", words |-> <<
          <<"r", "e", "v", "e", "n", "u", "e">>,
          <<"p", "r", "o", "f", "i", "t">>,
          <<"s", "a", "l", "e", "s">>,
          <<"i", "n", "c", "o", "m", "e">>,
          <<"f", "i", "n", "a", "n", "c", "i", "a", "l">>>>],
      [category |-> "market_analysis", words |-> <<
          <<"m", "a", "r", "k", "e", "t">>,
          <<"c", "u", "s", "t", "o", "m", "e", "r">>,
          <<"u", "s", "e", "r">>,
          <<"t", "a", "r", "g", "e", "t">>,
          <<"d", "e", "m", "o", "g", "r", "a", "p", "h", "i", "c">>>>],
      [category |-> "product", words |-> <<
          <<"p", "r", "o", "d", "u", "c", "t">>,
          <<"s", "e", "r", "v", "i", "c", "e">>,
          <<"f", "e", "a", "t", "u", "r", "e">>,
          <<"d", "e", "v", "e", "l", "o", "p", "m", "e", "n", "t">>>>],
      [category |-> "team", words |-> <<
          <<"t", "e", "a", "m">>,
          <<"e", "m", "p", "l", "o", "y", "e", "e">>,
          <<"s", "t", "a", "f", "f">>,
          <<"f", "o", "u", "n", "d", "e", "r">>,
          <<"c", "e", "o">>>>],
      [category |-> "funding", words |-> <<
          <<"f", "u", "n", "d", "i", "n", "g">>,
          <<"i", "n", "v", "e", "s", "t", "m", "e", "n", "t">>,
          <<"i", "n", "v", "e", "s", "t", "o", "r">>,
          <<"c", "a", "p", "i", "t", "a", "l">>,
          <<"r", "a", "i", "s", "e">>>>],
      [category |-> "technology", words |-> <<
          <<"t", "e", "c", "h", "n", "o", "l", "o", "g", "y">>,
          <<"t", "e", "c", "h">>,
          <<"s", "o", "f", "t", "w", "a", "r", "e">>,
          <<"p", "l", "a", "t", "f", "o", "r", "m">>,
          <<"a", "p", "p">>>>],
      [category |-> "legal", words |-> <<
          <<"l", "e", "g", "a", "l">>,
          <<"c", "o", "n", "t", "r", "a", "c", "t">>,
          <<"a", "g", "r", "e", "e", "m", "e", "n", "t">>,
          <<"t", "e", "r", "m", "s">>,
          <<"c", "o", "m", "p", "l", "i", "a", "n", "c", "e">>>>]>>

\* x in filename.lower() for the cue words of lines 985-988 and the file
\* names of the model
name_has(fname, word) ==
    fname[1] = "Bill" /\ word = "bill"

\* lines 967-990
_classify_document_type(t, ext, fname) ==
    LET hit == {k \in DOMAIN text_cues :
                   \E w \in Range(text_cues[k].words) : In(w, text_lower(t))}
    IN  IF hit # {}
        THEN text_cues[CHOOSE k \in hit : \A j \in hit : k <= j].type
        ELSE IF \E w \in {"invoice", "receipt", "bill"} : name_has(fname, w)
        THEN "invoice"
        ELSE IF \E w \in {"report", "analysis", "study"} : name_has(fname, w)
        THEN "report"
        ELSE "general_document"

\* lines 1025-1046
_categorize_content(t, ext) ==
    LET hit(row) == \E w \in Range(row.words) : In(w, text_lower(t))
        rows == SelectSeq(category_cues, hit)
    IN  IF rows # <<>> THEN [i \in DOMAIN rows |-> rows[i].category] ELSE <<"general">>

\* lines 648-660: the record for text that is empty or blank
EmptyContentAnalysis ==
    [content_length |-> 0,
     word_count |-> 0,
     sentence_count |-> 0,
     paragraph_count |-> 0,
     language |-> "unknown",
     document_type |-> "empty",
     structure_analysis |-> <<>>,
     content_categories |-> <<>>,
     key_sections |-> <<>>,
     readability_score |-> 0]

\* lines 705-719: the record when something inside the analyzer raised
ContentAnalysisError(t, e) ==
    [content_length |-> Len(t),
     word_count |-> 0,
     sentence_count |-> 0,
     paragraph_count |-> 0,
     language |-> "unknown",
     document_type |-> "unknown",
     structure_analysis |-> <<>>,
     content_categories |-> <<>>,
     key_sections |-> <<>>,
     readability_score |-> 0,
     analysis_error |-> e.msg]

\* a value a helper returns, as the application it is the result of: the
\* helper is a function of these arguments and of nothing else
Apply(fn, args) == [fn |-> fn, args |-> args]

\* lines 643-719; raised is whether a statement of the try block raised
_analyze_document_content(t, ext, fname, raised) ==
    IF IsBlank(t) THEN EmptyContentAnalysis
    ELSE IF raised THEN ContentAnalysisError(t, AnalysisFault)
    ELSE LET word_count == Len(split(t))
             sentence_count == count_nonblank(pieces(t, {".", "!", "?"}))
             paragraph_count == count_nonblank(split_blank_line(t))
         IN  [content_length |-> Len(t),
              word_count |-> word_count,
              sentence_count |-> sentence_count,
              paragraph_count |-> paragraph_count,
              language |-> _detect_language(t),
              document_type |-> _classify_document_type(t, ext, fname),
              structure_analysis |-> Apply("_analyze_document_structure", <<t, ext>>),
              content_categories |-> _categorize_content(t, ext),
              key_sections |-> Apply("_identify_key_sections", <<t, ext>>),
              readability_score |-> _calculate_readability(t),
              average_words_per_sentence |-> Ratio(word_count, Max(sentence_count, 1)),
              average_sentences_per_paragraph |-> Ratio(sentence_count, Max(paragraph_count, 1))]

----------------------------------------------------------------------------
(* Quality scorer: _analyze_content_quality *)

\* lines 783-792
EmptyQuality ==
    [text_quality_score |-> 0,
     ocr_confidence |-> 0,
     encoding_issues |-> 0,
     special_characters_ratio |-> 0,
     whitespace_ratio |-> 0,
     line_breaks_ratio |-> 0,
     quality_issues |-> <<"Empty content">>,
     text_integrity |-> "poor"]

\* a handler that returns the record of empty text, without the error
QualityErrorUnmarked(e) ==
    [text_quality_score |-> 0,
     ocr_confidence |-> 0,
     encoding_issues |-> 0,
     special_characters_ratio |-> 0,
     whitespace_ratio |-> 0,
     line_breaks_ratio |-> 0,
     quality_issues |-> <<"Empty content">>,
     text_integrity |-> "poor"]

\* lines 850-862
QualityError(e) ==
    [text_quality_score |-> 0,
     ocr_confidence |-> 0,
     encoding_issues |-> 1,
     special_characters_ratio |-> 0,
     whitespace_ratio |-> 0,
     line_breaks_ratio |-> 0,
     quality_issues |-> <<"Analysis error">>,
     text_integrity |-> "unknown",
     analysis_error |-> e.msg]

\* re.search(r'X{1,2}\s+X{1,2}', text) for a character class X: two
\* characters of the class with nothing but whitespace, and some, between them
split_by_space(t, X) ==
    \E i, j \in DOMAIN t :
        /\ i + 1 < j
        /\ t[i] \in X /\ t[j] \in X
        /\ \A k \in (i + 1)..(j - 1) : IsSpace(t[k])

\* lines 801-807
ocr_issues(t) ==
    (IF split_by_space(t, Letters) THEN <<"Possible word splitting">> ELSE <<>>)
    \o (IF split_by_space(t, Digits) THEN <<"Possible number splitting">> ELSE <<>>)
    \o (IF \E i \in DOMAIN t : t[i] \in NonAscii
        THEN <<"Non-ASCII characters detected">> ELSE <<>>)

\* line 798: len(re.findall(r'[^\w\s]', text))
special_chars(t) == count(t, Chars \ (Letters \cup Digits \cup NonAscii \cup Blanks))

\* a scorer that takes 10 points for each issue
quality_score_issues_cost_10(t) ==
    LET total_chars == Len(t)
        s1 == IF count(t, Blanks) * 10 > 3 * total_chars THEN 80 ELSE 100
        s2 == IF special_chars(t) * 10 > total_chars THEN s1 - 15 ELSE s1
        s3 == IF count(t, {"\n"}) * 10 > total_chars THEN s2 - 10 ELSE s2
    IN  Max(0, Min(100, s3 - Len(ocr_issues(t)) * 10))

\* a scorer that takes 10 points, not 15, for special characters
quality_score_special_cost_10(t) ==
    LET total_chars == Len(t)
        s1 == IF count(t, Blanks) * 10 > 3 * total_chars THEN 80 ELSE 100
        s2 == IF special_chars(t) * 10 > total_chars THEN s1 - 10 ELSE s1
        s3 == IF count(t, {"\n"}) * 10 > total_chars THEN s2 - 10 ELSE s2
    IN  Max(0, Min(100, s3 - Len(ocr_issues(t)) * 5))

\* lines 795-825: a / n > 0.3 and b / n > 0.1 on floats are 10 a > 3 n and
\* 10 b > n, the quotient of two integers being the float nearest to it
quality_score(t) ==
    LET total_chars == Len(t)
        s1 == IF count(t, Blanks) * 10 > 3 * total_chars THEN 80 ELSE 100
        s2 == IF special_chars(t) * 10 > total_chars THEN s1 - 15 ELSE s1
        s3 == IF count(t, {"\n"}) * 10 > total_chars THEN s2 - 10 ELSE s2
    IN  Max(0, Min(100, s3 - Len(ocr_issues(t)) * 5))

\* lines 828-835
integrity(score) ==
    IF score >= 90 THEN "excellent"
    ELSE IF score >= 75 THEN "good"
    ELSE IF score >= 60 THEN "fair"
    ELSE "poor"

\* round(a / b, 3) in thousandths (a / b lies half way between two
\* thousandths only for b a multiple of 16, which no text of the model has
\* as its length)
round3(a, b) == (2000 * a + b) \div (2 * b)

\* lines 777-862; raised is whether a statement of the try block raised
_analyze_content_quality(t, ext, raised) ==
    IF IsBlank(t) THEN EmptyQuality
    ELSE IF raised THEN QualityError(AnalysisFault)
    ELSE [text_quality_score |-> quality_score(t),
          ocr_confidence |-> round3(quality_score(t), 100),
          encoding_issues |-> IF \E i \in DOMAIN t : t[i] \in NonAscii THEN 1 ELSE 0,
          special_characters_ratio |-> round3(special_chars(t), Len(t)),
          whitespace_ratio |-> round3(count(t, Blanks), Len(t)),
          line_breaks_ratio |-> round3(count(t, {"\n"}), Len(t)),
          quality_issues |-> ocr_issues(t),
          text_integrity |-> integrity(quality_score(t)),
          total_characters |-> Len(t),
          readable_characters |-> Len(t) - special_chars(t)]

----------------------------------------------------------------------------
(* Key information extractor: _extract_key_information *)

\* lines 871-883
EmptyKeyInformation ==
    [document_title |-> <<>>,
     key_entities |-> <<>>,
     important_numbers |-> <<>>,
     dates |-> <<>>,
     email_addresses |-> <<>>,
     urls |-> <<>>,
     phone_numbers |-> <<>>,
     financial_data |-> <<>>,
     contact_information |-> <<>>,
     business_terms |-> <<>>,
     summary |-> "No content to analyze"]

\* lines 929-942
KeyInformationError(e) ==
    [document_title |-> <<>>,
     key_entities |-> <<>>,
     important_numbers |-> <<>>,
     dates |-> <<>>,
     email_addresses |-> <<>>,
     urls |-> <<>>,
     phone_numbers |-> <<>>,
     financial_data |-> <<>>,
     contact_information |-> <<>>,
     business_terms |-> <<>>,
     summary |-> "Error in information extraction",
     extraction_error |-> e.msg]

\* \b before position s: exactly one of the characters around it is a \w
Boundary(t, s) ==
    LET w(i) == i \in DOMAIN t /\ IsWordChar(t[i])
    IN  w(s - 1) # w(s)

\* the classes of line 886 on the characters of the model
EmailLocal == Letters \cup Digits \cup {".", "-"}
EmailDomain == Letters \cup Digits \cup {".", "-"}
EmailTld == Letters

\* where the match of
\*   \b[A-Za-z0-9._%+-]+@[A-Za-z0-9.-]+\.[A-Z|a-z]{2,}\b
\* that starts at s ends (the position after it), 0 when there is none: the
\* local part is the whole run before '@'; the domain is tried longest
\* first, and for each domain the top-level part longest first
email_match(t, s) ==
    LET l == Run(t, s, EmailLocal)
        q == s + l + 1
        dmax == IF q <= Len(t) THEN Run(t, q, EmailDomain) ELSE 0
        ends == {c \in (1..dmax) \X (2..Len(t)) :
                    /\ q + c[1] + c[2] <= Len(t)
                    /\ t[q + c[1]] = "."
                    /\ \A i \in (q + c[1] + 1)..(q + c[1] + c[2]) : t[i] \in EmailTld
                    /\ Boundary(t, q + c[1] + c[2] + 1)}
    IN  IF l = 0 \/ ~Boundary(t, s) \/ s + l > Len(t) THEN 0
        ELSE IF t[s + l] # "@" \/ ends = {} THEN 0
        ELSE LET best == CHOOSE c \in ends :
                            \A d \in ends : d[1] < c[1] \/ (d[1] = c[1] /\ d[2] <= c[2])
             IN  q + best[1] + best[2] + 1

\* re.findall of the e-mail pattern, scanning from position s
RECURSIVE findall_email(_, _)
findall_email(t, s) ==
    IF s > Len(t) THEN <<>>
    ELSE IF email_match(t, s) > 0
    THEN <<SubSeq(t, s, email_match(t, s) - 1)>> \o findall_email(t, email_match(t, s))
    ELSE findall_email(t, s + 1)

\* the characters the group of line 887 accepts: ASCII letters, digits and
\* the punctuation of the model
UrlChars == Letters \cup Digits \cup Punctuation

\* where the match of  http[s]?://(...)+  that starts at s ends, 0 when none
url_match(t, s) ==
    LET has(w, k) == k + Len(w) - 1 <= Len(t) /\ SubSeq(t, k, k + Len(w) - 1) = w
        k == IF has(<<"s">>, s + 4) THEN s + 5 ELSE s + 4
    IN  IF has(<<"h", "t", "t", "p">>, s) /\ has(<<":", "/", "/">>, k)
           /\ Run(t, k + 3, UrlChars) > 0
        THEN k + 3 + Run(t, k + 3, UrlChars)
        ELSE 0

RECURSIVE findall_url(_, _)
findall_url(t, s) ==
    IF s > Len(t) THEN <<>>
    ELSE IF url_match(t, s) > 0
    THEN <<SubSeq(t, s, url_match(t, s) - 1)>> \o findall_url(t, url_match(t, s))
    ELSE findall_url(t, s + 1)

\* list(set(xs)): the distinct elements of xs in the order a set of strings
\* is iterated in, which is that of their hashes and differs from one
\* interpreter process to the next (str hashes are salted per process)
list_set(xs) ==
    {p \in [1..Cardinality(Range(xs)) -> Range(xs)] : Range(p) = Range(xs)}

\* lines 1276-1299, in hundredths
_calculate_extraction_confidence(t, ext) ==
    IF t = <<>> THEN 0
    ELSE LET by_type == CASE ext \in {".txt", ".docx"} -> 10
                          [] ext \in {".pdf", ".tiff"} -> 5
                          [] ext \in {".eml", ".msg"} -> 5
                          [] OTHER -> 0
             by_length == IF Len(t) > 1000 THEN 5 ELSE 0
             by_letters == IF \E i \in DOMAIN t : t[i] \in Letters THEN 5 ELSE 0
         IN  Min(100, 80 + by_type + by_length + by_letters)

\* lines 865-942; emails and urls are the orders list(set(...)) came out in,
\* raised is whether a statement of the try block raised
_extract_key_information(t, ext, fname, emails, urls, raised) ==
    IF IsBlank(t) THEN EmptyKeyInformation
    ELSE IF raised THEN KeyInformationError(AnalysisFault)
    ELSE [document_title |-> _generate_document_title(t, fname),
          key_entities |-> Apply("_extract_key_entities", <<t>>),
          important_numbers |-> Apply("_extract_important_numbers", <<t>>),
          dates |-> Apply("re.findall", <<"dates", t>>),
          email_addresses |-> emails,
          urls |-> urls,
          phone_numbers |-> Apply("re.findall", <<"phone_numbers", t>>),
          financial_data |-> Apply("_extract_financial_data", <<t>>),
          contact_information |-> Apply("_extract_contact_information",
                                        <<t, findall_email(t, 1)>>),
          business_terms |-> Apply("_extract_business_terms", <<t>>),
          summary |-> Apply("_generate_document_summary", <<t, ext>>),
          extraction_confidence |-> _calculate_extraction_confidence(t, ext)]

----------------------------------------------------------------------------
(* File metadata: _generate_file_metadata.  The processing time, which is
   read off the clock and enters nothing else, is left out of the record. *)

\* blob.size of a blob that was made by bucket.blob(name) and never loaded:
\* None
NoSize == -1

\* the size of a document on disk, in bytes
DocumentBytes == 2048

\* lines 71-89: file_size after the size query, whose calls went as tr
file_size_after(fp, tr) ==
    IF \E i \in DOMAIN tr : ~tr[i].ok THEN 0
    ELSE IF is_gcs_url(fp) THEN NoSize
    ELSE DocumentBytes

\* lines 1101-1114
_get_file_category(ext) ==
    CASE ext \in {".pdf", ".docx"} -> "document"
      [] ext = ".txt" -> "text"
      [] ext \in {".png", ".jpg", ".jpeg", ".tiff"} -> "image"
      [] ext \in {".eml", ".msg"} -> "email"
      [] OTHER -> "unknown"

\* lines 1117-1130
_get_supported_operations(ext) ==
    CASE ext = ".pdf" -> <<"ocr", "text_extraction", "structure_analysis">>
      [] ext = ".docx" -> <<"text_extraction", "structure_analysis", "metadata_extraction">>
      [] ext = ".txt" -> <<"text_extraction", "content_analysis">>
      [] ext \in {".png", ".jpg", ".jpeg", ".tiff"} -> <<"ocr", "text_extraction">>
      [] ext \in {".eml", ".msg"} -> <<"email_parsing", "text_extraction", "header_extraction">>
      [] OTHER -> <<"text_extraction">>

\* processing_method.split('(')[0].strip(): the name up to its first '('
\* without the blank before it
method_family(method) ==
    CASE method \in {"Google Cloud Document AI (PDF/TIFF from GCS)",
                     "Google Cloud Document AI (PDF/TIFF)",
                     "Google Cloud Document AI (Image from GCS)",
                     "Google Cloud Document AI (Image)"} -> "Google Cloud Document AI"
      [] method = "python-docx (from GCS)" -> "python-docx"
      [] method = "Python email library (from GCS)" -> "Python email library"
      [] method = "extract-msg (from GCS)" -> "extract-msg"
      [] method = "Direct text reading (from GCS)" -> "Direct text reading"
      [] OTHER -> method

\* lines 736-742, in hundredths
confidence_weights ==
    [k \in {"Google Cloud Document AI", "python-docx", "extract-msg",
            "Python email library", "Direct text reading"} |->
        CASE k = "Google Cloud Document AI" -> 95
          [] k = "python-docx" -> 98
          [] k = "extract-msg" -> 90
          [] k = "Python email library" -> 85
          [] k = "Direct text reading" -> 99]

\* dict.get(key, default)
get(d, key, default) == IF key \in DOMAIN d THEN d[key] ELSE default

confidence_scoresOfWholeName(method) == get(confidence_weights, method, 80)

\* line 744
confidence_scores(method) == get(confidence_weights, method_family(method), 80)

\* lines 722-774; now is the reading of the clock at the call; raised is
\* whether a statement of the try block raised, as file_size / (1024 * 1024)
\* does for a size that is None
_generate_file_metadata(fname, ext, file_size, method, gcs, fp, now, raised) ==
    IF raised \/ file_size = NoSize
    THEN [filename |-> fname,
          file_extension |-> ext,
          file_size_bytes |-> file_size,
          processing_method |-> method,
          timestamp |-> now,
          is_gcs_url |-> gcs,
          file_path |-> fp,
          metadata_error |-> IF file_size = NoSize
                             THEN <<"unsupported operand type(s) for /: 'NoneType' and 'int'">>
                             ELSE AnalysisFault.msg]
    ELSE [filename |-> fname,
          file_extension |-> ext,
          file_category |-> _get_file_category(ext),
          file_size_bytes |-> file_size,
          file_size_mb |-> (200 * file_size + 1048576) \div (2 * 1048576),
          file_hash |-> Apply("md5", <<fname, file_size, now>>),
          timestamp |-> now,
          processing_method |-> method,
          processing_confidence |-> confidence_scores(method),
          is_gcs_url |-> gcs,
          file_path |-> fp,
          supported_operations |-> _get_supported_operations(ext)]

----------------------------------------------------------------------------
(* Records returned by doc_ingestion_tool *)

\* lines 143-147
UnsupportedFormat(ext) ==
    [status |-> "failure",
     error |-> <<"Unsupported file format: ", ext>>,
     supported_formats |-> supported_formats]

\* the handler of document_ai_ocr_tool (lines 129-133 there), which reports
\* no error_type
FailureRecordUntyped(e) ==
    [status |-> "failure", error |-> e.msg]

\* lines 189-196: the outermost  except Exception as e
FailureRecord(e) ==
    [status |-> "failure", error |-> e.msg, error_type |-> e.type]

\* one run of an analyzer: what was called, on what, whether a statement
\* inside its try block raised, and the record it returned
Ran(fn, args, raised, out) == [fn |-> fn, args |-> args, raised |-> raised, out |-> out]

Stages == {"_analyze_document_content", "_generate_file_metadata",
           "_analyze_content_quality", "_extract_key_information"}

\* lines 152-164: the four stages in the order they run; faults are the
\* stages in which something raises
Analyses(fp, t, file_size, now, faults, emails, urls) ==
    LET ext == file_extension(fp)
        fname == filename(fp)
        method == processing_method(backend_of(fp), is_gcs_url(fp))
        f(stage) == stage \in faults
    IN  <<Ran("_analyze_document_content", <<t, ext, fname>>,
              f("_analyze_document_content"),
              _analyze_document_content(t, ext, fname, f("_analyze_document_content"))),
          Ran("_generate_file_metadata", <<fname, ext, file_size, method, is_gcs_url(fp), fp>>,
              f("_generate_file_metadata") \/ file_size = NoSize,
              _generate_file_metadata(fname, ext, file_size, method, is_gcs_url(fp), fp,
                                      now, f("_generate_file_metadata"))),
          Ran("_analyze_content_quality", <<t, ext>>,
              f("_analyze_content_quality"),
              _analyze_content_quality(t, ext, f("_analyze_content_quality"))),
          Ran("_extract_key_information", <<t, ext, fname>>,
              f("_extract_key_information"),
              _extract_key_information(t, ext, fname, emails, urls,
                                       f("_extract_key_information")))>>

\* lines 180-187
SuccessRecord(t, an) ==
    [status |-> "success",
     document_analysis |-> an[1].out,
     extracted_text |-> t,
     file_metadata |-> an[2].out,
     content_analysis |-> an[4].out,
     quality_metrics |-> an[3].out]

----------------------------------------------------------------------------
(* Writes to the shared context *)

\* doc_ingestion_tool lines 167-170, audio_analysis_tool lines 171-174
AppendText(s, t) ==
    IF "startup_information" \in DOMAIN s
    THEN Put(s, "startup_information", s["startup_information"] \o Separator \o t)
    ELSE Put(s, "startup_information", t)

\* a store that leaves processing_method as it was
StoreSubRecordsWithoutMethod(s, fp, r) ==
    LET s1 == Put(s, "file_path", fp)
        s2 == Put(s1, "file_type", file_extension(fp))
        s4 == Put(s2, "document_analysis", r.document_analysis)
        s5 == Put(s4, "file_metadata", r.file_metadata)
        s6 == Put(s5, "content_analysis", r.content_analysis)
    IN  Put(s6, "quality_metrics", r.quality_metrics)

\* doc_ingestion_tool lines 172-178
StoreSubRecords(s, fp, r) ==
    LET s1 == Put(s, "file_path", fp)
        s2 == Put(s1, "file_type", file_extension(fp))
        s3 == Put(s2, "processing_method", processing_method(backend_of(fp), is_gcs_url(fp)))
        s4 == Put(s3, "document_analysis", r.document_analysis)
        s5 == Put(s4, "file_metadata", r.file_metadata)
        s6 == Put(s5, "content_analysis", r.content_analysis)
    IN  Put(s6, "quality_metrics", r.quality_metrics)

----------------------------------------------------------------------------
(* Outcomes of a run of calls to collaborators: the calls are made in order
   and the run stops at the first one that raises.  storage.Client stands for
   the client's creation together with the bucket(...) and blob(...) handles
   made from it, which contact no service. *)

Attempt(ops, n, ok) == [i \in 1..n |-> Ev(ops[i], (i < n) \/ ok, <<>>)]

Outcomes(ops) ==
    {Attempt(ops, n, FALSE) : n \in 1..Len(ops)} \cup {Attempt(ops, Len(ops), TRUE)}

Failed(tr) == ~tr[Len(tr)].ok

Returning(tr, t) == [tr EXCEPT ![Len(tr)].val = t]

\* what the failing call raises
ErrorOf(tr) ==
    LET op == tr[Len(tr)].op IN
    CASE op \in {"open", "upload_from_filename", "download_to_filename"} -> NotFound
      [] op = "process_document" -> SizeLimit
      [] op \in {"docx.Document", "extract_msg.Message", "email.message_from_bytes",
                 "download_as_text"} -> BadFile
      [] OTHER -> Forbidden

----------------------------------------------------------------------------
(* Initial state: a fresh session, nothing invoked *)

Init ==
    /\ state = [k \in {} |-> <<>>]
    /\ pc = "idle"
    /\ tool = "none"
    /\ file_path = NotAString
    /\ text = <<>>
    /\ log = <<>>
    /\ listing = <<>>
    /\ exc = NoExc
    /\ scratch = {}
    /\ result = NoResult
    /\ pre = [k \in {} |-> <<>>]
    /\ calls = 0
    /\ runs = <<>>
    /\ bucket = {}
    /\ workers = NoWorkers

Idle == pc \in {"idle", "done"}

\* an exception e leaves helper code and reaches the outermost handler
Raise(e, caught) ==
    /\ exc' = e
    /\ result' = FailureRecord(caught)
    /\ pc' = "done"

RaiseWrapped(e) ==
    Raise(e, Wrap(ErrorPrefix(backend_of(file_path), is_gcs_url(file_path)), e))

----------------------------------------------------------------------------
(* doc_ingestion_tool *)

\* lines 22-72: entry and format resolution
Invoke(fp) ==
    /\ Idle
    /\ calls' = calls + 1
    /\ tool' = "doc_ingestion_tool"
    /\ file_path' = fp
    /\ pre' = state
    /\ text' = <<>>
    /\ log' = <<>>
    /\ listing' = <<>>
    /\ IF fp = NotAString
       THEN Raise(NoStartswith, NoStartswith)
       ELSE /\ exc' = NoExc
            /\ result' = NoResult
            /\ pc' = "file_size"
    /\ runs' = <<>>
    /\ UNCHANGED <<state, scratch, bucket, workers>>

FileSizeCalls(fp) ==
    IF is_gcs_url(fp)
    THEN <<"storage.Client", "blob.size">>
    ELSE <<"os.path.getsize">>

\* lines 74-89: the size query; whatever it raises is swallowed
GetFileSize(tr) ==
    /\ pc = "file_size"
    /\ tr \in Outcomes(FileSizeCalls(file_path))
    /\ log' = log \o tr
    /\ pc' = "dispatch"
    /\ UNCHANGED <<state, tool, file_path, text, listing, exc, scratch, result, pre, calls, runs, bucket, workers>>

\* lines 93-147: the extension picks the helper, or the call is rejected
Dispatch ==
    /\ pc = "dispatch"
    /\ LET b == backend_of(file_path) IN
       IF b = "unsupported"
       THEN /\ result' = UnsupportedFormat(file_extension(file_path))
            /\ pc' = "done"
       ELSE /\ pc' = EntryPoint(b, is_gcs_url(file_path))
            /\ result' = result
    /\ UNCHANGED <<state, tool, file_path, text, log, listing, exc, scratch, pre, calls, runs, bucket, workers>>

OcrPdfBeginCalls(fp) ==
    IF is_gcs_url(fp)
    THEN <<"DocumentProcessorServiceClient">>
    ELSE <<"DocumentProcessorServiceClient", "open">>

\* _ocr_pdf_document lines 236-242, _ocr_pdf_document_gcs lines 448-451:
\* the OCR client, and for a local file reading its content
OcrPdfBegin(tr) ==
    /\ pc = "ocr_pdf"
    /\ tr \in Outcomes(OcrPdfBeginCalls(file_path))
    /\ log' = log \o tr
    /\ IF Failed(tr)
       THEN RaiseWrapped(ErrorOf(tr))
       ELSE /\ pc' = "sync"
            /\ UNCHANGED <<exc, result>>
    /\ UNCHANGED <<state, tool, file_path, text, listing, scratch, pre, calls, runs, bucket, workers>>

\* an executor that goes on to batch mode whatever the synchronous call did
AfterSyncAlwaysBatch(ok, gcs) ==
    IF gcs THEN "submit" ELSE "upload"

\* where the executor goes after the synchronous call: lines 256-259, 467-470
AfterSync(ok, gcs) ==
    IF ok THEN "aggregate" ELSE IF gcs THEN "submit" ELSE "upload"

\* lines 245-259 and 454-470: the synchronous OCR call
SyncAttempt(ok, t) ==
    /\ pc = "sync"
    /\ ~ok => t = <<>>
    /\ log' = Append(log, Ev("process_document", ok, t))
    /\ text' = t
    /\ pc' = AfterSync(ok, is_gcs_url(file_path))
    /\ UNCHANGED <<state, tool, file_path, listing, exc, scratch, result, pre, calls, runs, bucket, workers>>

\* lines 263-276: the holding bucket is fetched, or created when fetching it
\* raises, and the input is uploaded into it
EnsureBucketOutcomes ==
    LET up == Outcomes(<<"upload_from_filename">>) IN
    {<<Ev("storage.Client", FALSE, <<>>)>>}
    \cup {<<Did("storage.Client"), Did("get_bucket")>> \o u : u \in up}
    \cup {<<Did("storage.Client"), Ev("get_bucket", FALSE, <<>>), Did("create_bucket")>> \o u : u \in up}
    \cup {<<Did("storage.Client"), Ev("get_bucket", FALSE, <<>>), Ev("create_bucket", FALSE, <<>>)>>}

BatchFallback(tr) ==
    /\ pc = "upload"
    /\ tr \in EnsureBucketOutcomes
    /\ log' = log \o tr
    /\ IF Failed(tr)
       THEN RaiseWrapped(ErrorOf(tr))
       ELSE /\ pc' = "submit"
            /\ UNCHANGED <<exc, result>>
    /\ UNCHANGED <<state, tool, file_path, text, listing, scratch, pre, calls, runs, bucket, workers>>

\* lines 290-296 and 482-488: the batch job is submitted
BatchSubmit(ok) ==
    /\ pc = "submit"
    /\ log' = Append(log, Ev("batch_process_documents", ok, <<>>))
    /\ IF ok
       THEN /\ pc' = "wait"
            /\ UNCHANGED <<exc, result>>
       ELSE RaiseWrapped(Forbidden)
    /\ UNCHANGED <<state, tool, file_path, text, listing, scratch, pre, calls, runs, bucket, workers>>

\* what operation.result(timeout=1800) can raise
WaitErrors == {Timeout, JobFailed}

\* a wait without the timeout: a job that never completes blocks the caller
BatchWaitUnbounded(ok, e) ==
    /\ pc = "wait"
    /\ e \in WaitErrors
    /\ log' = Append(log, Ev("operation.result", ok, <<>>))
    /\ pc' = IF ok THEN "fetch" ELSE "blocked"
    /\ UNCHANGED <<exc, result>>
    /\ UNCHANGED <<state, tool, file_path, text, listing, scratch, pre, calls, runs, bucket, workers>>

\* lines 297 and 489: the wait for the job, at most 1800 seconds
BatchWait(ok, e) ==
    /\ pc = "wait"
    /\ e \in WaitErrors
    /\ log' = Append(log, Ev("operation.result", ok, <<>>))
    /\ IF ok
       THEN /\ pc' = "fetch"
            /\ UNCHANGED <<exc, result>>
       ELSE RaiseWrapped(e)
    /\ UNCHANGED <<state, tool, file_path, text, listing, scratch, pre, calls, runs, bucket, workers>>

\* the artifacts a result location can hold: a name that ends in ".json" or
\* not, and for a ".json" one the text of its document
Blobs ==
    {[json |-> TRUE, text |-> t] : t \in {<<"a">>, <<"b">>}}
    \cup {[json |-> FALSE, text |-> <<"b">>]}

Listings == UNION {[1..n -> Blobs] : n \in 0..MaxBlobs}

\* lines 301-302 and 498-499: the first listed blob whose name ends in ".json"
FirstJson(blobs) ==
    IF \E i \in 1..Len(blobs) : blobs[i].json
    THEN CHOOSE i \in 1..Len(blobs) :
            /\ blobs[i].json
            /\ \A j \in 1..(i - 1) : ~blobs[j].json
    ELSE 0

\* a loop without its  return : the last ".json" artifact wins
BatchResultTextLast(blobs) ==
    IF FirstJson(blobs) = 0
    THEN <<>>
    ELSE blobs[CHOOSE i \in 1..Len(blobs) :
                  /\ blobs[i].json
                  /\ \A j \in (i + 1)..Len(blobs) : ~blobs[j].json].text

\* a loop without the  endswith(".json")  test: the first blob is read
BatchResultTextAnyBlob(blobs) ==
    IF Len(blobs) = 0 THEN <<>> ELSE blobs[1].text

\* lines 301-307 and 498-504: the text the executor returns for a listing
BatchResultText(blobs) ==
    IF FirstJson(blobs) = 0 THEN <<>> ELSE blobs[FirstJson(blobs)].text

ListCalls(fp) ==
    IF is_gcs_url(fp)
    THEN <<"storage.Client", "list_blobs">>
    ELSE <<"list_blobs">>

\* lines 299-307 and 491-504: the result location is listed and the first
\* ".json" artifact is read and parsed; readable is whether download_as_text
\* and json.loads return for it (otherwise what they raise is BadJson)
BatchFetch(tr, blobs, readable) ==
    /\ pc = "fetch"
    /\ tr \in Outcomes(ListCalls(file_path))
    /\ blobs \in Listings
    /\ IF Failed(tr)
       THEN /\ blobs = <<>>
            /\ readable
            /\ log' = log \o tr
            /\ listing' = listing
            /\ text' = text
            /\ RaiseWrapped(ErrorOf(tr))
       ELSE /\ listing' = blobs
            /\ IF FirstJson(blobs) = 0
               THEN /\ readable
                    /\ log' = log \o tr
                    /\ text' = BatchResultText(blobs)
                    /\ pc' = "aggregate"
                    /\ UNCHANGED <<exc, result>>
               ELSE IF ~readable
               THEN /\ log' = log \o tr \o <<Ev("download_as_text", FALSE, <<>>)>>
                    /\ text' = text
                    /\ RaiseWrapped(BadJson)
               ELSE /\ log' = log \o tr \o <<Ev("download_as_text", TRUE, blobs[FirstJson(blobs)].text)>>
                    /\ text' = BatchResultText(blobs)
                    /\ pc' = "aggregate"
                    /\ UNCHANGED <<exc, result>>
    /\ UNCHANGED <<state, tool, file_path, scratch, pre, calls, runs, bucket, workers>>

\* _ocr_img lines 317-345: one synchronous call, any exception is re-raised
OcrImg(tr, t) ==
    /\ pc = "ocr_img"
    /\ tr \in Outcomes(<<"DocumentProcessorServiceClient", "open", "process_document">>)
    /\ t \in Texts
    /\ Failed(tr) => t = <<>>
    /\ log' = log \o Returning(tr, t)
    /\ IF Failed(tr)
       THEN /\ text' = text
            /\ RaiseWrapped(ErrorOf(tr))
       ELSE /\ text' = t
            /\ pc' = "aggregate"
            /\ UNCHANGED <<exc, result>>
    /\ UNCHANGED <<state, tool, file_path, listing, scratch, pre, calls, runs, bucket, workers>>

\* the calls a parser helper makes on a file it can open by name
ParserCalls(backend) ==
    CASE backend = "ocr_img" -> <<"open", "process_document">>
      [] backend = "docx" -> <<"docx.Document">>
      [] backend = "msg" -> <<"extract_msg.Message">>
      [] backend = "eml" -> <<"open", "email.message_from_bytes">>
      [] backend = "txt" -> <<"open">>

\* _get_text_from_docx, _msg, _txt, _eml: lines 348-395
ParseLocal(tr, t) ==
    /\ pc = "parse"
    /\ tr \in Outcomes(ParserCalls(backend_of(file_path)))
    /\ t \in Texts
    /\ Failed(tr) => t = <<>>
    /\ log' = log \o Returning(tr, t)
    /\ IF Failed(tr)
       THEN /\ text' = text
            /\ RaiseWrapped(ErrorOf(tr))
       ELSE /\ text' = t
            /\ pc' = "aggregate"
            /\ UNCHANGED <<exc, result>>
    /\ UNCHANGED <<state, tool, file_path, listing, scratch, pre, calls, runs, bucket, workers>>

\* _get_text_from_txt_gcs lines 598-610
TxtGcs(tr, t) ==
    /\ pc = "txt_gcs"
    /\ tr \in Outcomes(<<"storage.Client", "download_as_text">>)
    /\ t \in Texts
    /\ Failed(tr) => t = <<>>
    /\ log' = log \o Returning(tr, t)
    /\ IF Failed(tr)
       THEN /\ text' = text
            /\ RaiseWrapped(ErrorOf(tr))
       ELSE /\ text' = t
            /\ pc' = "aggregate"
            /\ UNCHANGED <<exc, result>>
    /\ UNCHANGED <<state, tool, file_path, listing, scratch, pre, calls, runs, bucket, workers>>

----------------------------------------------------------------------------
(* Remote documents that need a local copy: _ocr_img_gcs, _get_text_from_docx_gcs,
   _get_text_from_msg_gcs, _get_text_from_eml_gcs *)

\* the scratch file of the running invocation; its suffix is the blob's own
\* extension for an image and the fixed one of the helper otherwise
ScratchFile ==
    [call |-> calls,
     suffix |-> IF backend_of(file_path) = "ocr_img" THEN file_path.ext
                ELSE file_extension(file_path)]

\* a scratch file made with delete=False and never unlinked
ExitWithKept(files, f) == files

\* leaving the  with tempfile.NamedTemporaryFile(...)  block deletes the file,
\* whether the block is left by return or by an exception
ExitWith(files, f) == files \ {f}

ScratchCalls(fp) ==
    IF backend_of(fp) = "ocr_img"
    THEN <<"DocumentProcessorServiceClient", "storage.Client", "NamedTemporaryFile">>
    ELSE <<"storage.Client", "NamedTemporaryFile">>

\* lines 514-537, 559-567, 581-589, 615-623: clients, then the scratch file
ScratchCreate(tr) ==
    /\ pc = "scratch"
    /\ tr \in Outcomes(ScratchCalls(file_path))
    /\ log' = log \o tr
    /\ IF Failed(tr)
       THEN /\ scratch' = scratch
            /\ RaiseWrapped(ErrorOf(tr))
       ELSE /\ scratch' = scratch \cup {ScratchFile}
            /\ pc' = "download"
            /\ UNCHANGED <<exc, result>>
    /\ UNCHANGED <<state, tool, file_path, text, listing, pre, calls, runs, bucket, workers>>

\* a download whose failure is swallowed: the backend reads the scratch file
\* whatever the download did
ScratchDownloadSwallowed(ok) ==
    /\ pc = "download"
    /\ log' = Append(log, Ev("download_to_filename", ok, <<>>))
    /\ pc' = "extract"
    /\ UNCHANGED <<exc, result, scratch>>
    /\ UNCHANGED <<state, tool, file_path, text, listing, pre, calls, runs, bucket, workers>>

\* lines 538, 568, 590, 624: the blob is downloaded into the scratch file
ScratchDownload(ok) ==
    /\ pc = "download"
    /\ log' = Append(log, Ev("download_to_filename", ok, <<>>))
    /\ IF ok
       THEN /\ pc' = "extract"
            /\ UNCHANGED <<exc, result, scratch>>
       ELSE /\ scratch' = ExitWith(scratch, ScratchFile)
            /\ RaiseWrapped(NotFound)
    /\ UNCHANGED <<state, tool, file_path, text, listing, pre, calls, runs, bucket, workers>>

\* lines 540-551, 570-574, 592-593, 626-638: the backend reads the scratch file
ScratchExtract(tr, t) ==
    /\ pc = "extract"
    /\ tr \in Outcomes(ParserCalls(backend_of(file_path)))
    /\ t \in Texts
    /\ Failed(tr) => t = <<>>
    /\ log' = log \o Returning(tr, t)
    /\ scratch' = ExitWith(scratch, ScratchFile)
    /\ IF Failed(tr)
       THEN /\ text' = text
            /\ RaiseWrapped(ErrorOf(tr))
       ELSE /\ text' = t
            /\ pc' = "aggregate"
            /\ UNCHANGED <<exc, result>>
    /\ UNCHANGED <<state, tool, file_path, listing, pre, calls, runs, bucket, workers>>

----------------------------------------------------------------------------
\* doc_ingestion_tool lines 149-187: analysis, the writes to the shared
\* context and the returned record
AggregateResult(faults) ==
    /\ pc = "aggregate"
    /\ faults \subseteq Stages
    /\ IsBlank(text) => faults \subseteq {"_generate_file_metadata"}
    /\ \E emails \in list_set(findall_email(text, 1)), urls \in list_set(findall_url(text, 1)) :
          runs' = Analyses(file_path, text,
                           file_size_after(file_path,
                               SubSeq(log, 1, Min(Len(log), Len(FileSizeCalls(file_path))))),
                           calls, faults, emails, urls)
    /\ result' = SuccessRecord(text, runs')
    /\ state' = StoreSubRecords(AppendText(state, text), file_path, result')
    /\ pc' = "done"
    /\ UNCHANGED <<tool, file_path, text, log, listing, exc, scratch, pre, calls, bucket, workers>>

----------------------------------------------------------------------------
(* document_ai_ocr_tool (tools/file_ingestion_tools): one action for the call *)

\* the prefixes of its helpers, which differ for pdf/tiff
DocAiErrorPrefix(backend, gcs) ==
    IF backend = "ocr_pdf"
    THEN IF gcs THEN "Error processing PDF from GCS with Document AI"
                ELSE "Error processing PDF with Document AI"
    ELSE ErrorPrefix(backend, gcs)

\* lines 116-120: the accumulator is assigned, not appended to
DocAiStore(s, fp, t) ==
    LET s1 == Put(s, "startup_information", t)
        s2 == Put(s1, "file_path", fp)
        s3 == Put(s2, "file_type", file_extension(fp))
    IN  Put(s3, "processing_method", processing_method(backend_of(fp), is_gcs_url(fp)))

\* lines 33-133
document_ai_ocr_tool(fp, ok, t) ==
    /\ Idle
    /\ calls' = calls + 1
    /\ tool' = "document_ai_ocr_tool"
    /\ file_path' = fp
    /\ pre' = state
    /\ listing' = <<>>
    /\ pc' = "done"
    /\ ~ok => t = <<>>
    /\ IF fp = NotAString
       THEN /\ ok
            /\ t = <<>>
            /\ exc' = NoStartswith
            /\ result' = [status |-> "failure", error |-> NoStartswith.msg]
            /\ log' = <<>>
            /\ text' = <<>>
            /\ state' = state
       ELSE IF backend_of(fp) = "unsupported"
       THEN /\ ok
            /\ t = <<>>
            /\ exc' = NoExc
            /\ result' = [status |-> "failure",
                          error |-> <<"Unsupported file format: ", file_extension(fp)>>]
            /\ log' = <<>>
            /\ text' = <<>>
            /\ state' = state
       ELSE IF ok
       THEN /\ exc' = NoExc
            /\ log' = <<Ev(backend_of(fp), TRUE, t)>>
            /\ text' = t
            /\ state' = DocAiStore(state, fp, t)
            /\ result' = [status |-> "success", extracted_text |-> t,
                          file_type |-> file_extension(fp),
                          processing_method |-> processing_method(backend_of(fp), is_gcs_url(fp))]
       ELSE /\ exc' = BadFile
            /\ log' = <<Ev(backend_of(fp), FALSE, <<>>)>>
            /\ text' = <<>>
            /\ state' = state
            /\ result' = [status |-> "failure",
                          error |-> Wrap(DocAiErrorPrefix(backend_of(fp), is_gcs_url(fp)), BadFile).msg]
    /\ runs' = <<>>
    /\ UNCHANGED <<scratch, bucket, workers>>

----------------------------------------------------------------------------
(* audio_analysis_tool: one action for the call *)

AudioLocators == [scheme : Schemes, stem : {"pitch"}, ext : {".mp3"}]

\* lines 166-174
AudioStore(s, fp, t) ==
    LET s1 == Put(s, "audio_file_path", fp)
        s2 == Put(s1, "audio_file_type", file_extension(fp))
        s3 == Put(s2, "audio_file_metadata", Apply("file_metadata", <<filename(fp), fp>>))
    IN  AppendText(s3, t)

\* the calls that may raise: for a remote file the download into the
\* scratch file comes first (lines 84-89, 105, 120)
AudioCalls(fp) ==
    IF is_gcs_url(fp)
    THEN <<"download_to_filename", "files.upload", "generate_content">>
    ELSE <<"files.upload", "generate_content">>

\* lines 96-101, 106-117, 125-135: the record returned when call op raised e
AudioFailure(fp, op, e) ==
    IF op = "generate_content"
    THEN [status |-> "failure",
          error |-> <<"Error generating content">> \o e.msg,
          error_type |-> e.type]
    ELSE IF is_gcs_url(fp)
    THEN [status |-> "failure",
          error |-> <<"Error processing GCS file">> \o e.msg,
          error_type |-> e.type]
    ELSE IF e.type = "FileNotFoundError"
    THEN [status |-> "failure",
          error |-> <<"Audio file not found at ", fp>>,
          error_type |-> "FileNotFoundError"]
    ELSE [status |-> "failure",
          error |-> <<"Error uploading file">> \o e.msg,
          error_type |-> e.type]

\* lines 84-94: the scratch file is made with delete=False, so leaving the
\* with block keeps it, and os.unlink comes after the upload: the file is
\* removed once files.upload has returned and stays if the download or the
\* upload raised
AudioScratch(files, f, tr) ==
    IF \E i \in DOMAIN tr : tr[i].op = "files.upload" /\ tr[i].ok
    THEN files
    ELSE files \cup {f}

\* lines 27-189; tr is how the calls went, e what the failing one raised
audio_analysis_tool(fp, tr, e, t) ==
    /\ Idle
    /\ calls' = calls + 1
    /\ tool' = "audio_analysis_tool"
    /\ file_path' = fp
    /\ pre' = state
    /\ listing' = <<>>
    /\ pc' = "done"
    /\ tr \in Outcomes(AudioCalls(fp))
    /\ Failed(tr) => t = <<>>
    /\ ~Failed(tr) => e = NoExc
    /\ Failed(tr) => e \in {NotFound, Forbidden}
    /\ log' = IF Failed(tr) THEN tr ELSE Returning(tr, t)
    /\ exc' = e
    /\ text' = t
    /\ IF Failed(tr)
       THEN /\ state' = state
            /\ result' = AudioFailure(fp, tr[Len(tr)].op, e)
       ELSE /\ state' = AudioStore(state, fp, t)
            /\ result' = [status |-> "success",
                          analysis |-> [model |-> "gemini-2.5-flash", response_text |-> t],
                          file_metadata |-> Apply("file_metadata", <<filename(fp), fp>>)]
    /\ scratch' = IF is_gcs_url(fp)
                  THEN AudioScratch(scratch, [call |-> calls + 1, suffix |-> file_extension(fp)], tr)
                  ELSE scratch
    /\ runs' = <<>>
    /\ UNCHANGED <<bucket, workers>>

----------------------------------------------------------------------------

Next ==
    \/ \E fp \in Locators \cup {NotAString} : calls < MaxCalls /\ Invoke(fp)
    \/ \E tr \in Outcomes(FileSizeCalls(file_path)) : GetFileSize(tr)
    \/ Dispatch
    \/ \E tr \in Outcomes(OcrPdfBeginCalls(file_path)) : OcrPdfBegin(tr)
    \/ \E ok \in BOOLEAN, t \in Texts : SyncAttempt(ok, t)
    \/ \E tr \in EnsureBucketOutcomes : BatchFallback(tr)
    \/ \E ok \in BOOLEAN : BatchSubmit(ok)
    \/ \E ok \in BOOLEAN, e \in WaitErrors : BatchWait(ok, e)
    \/ \E tr \in Outcomes(ListCalls(file_path)), blobs \in Listings, readable \in BOOLEAN :
          BatchFetch(tr, blobs, readable)
    \/ \E tr \in Outcomes(<<"DocumentProcessorServiceClient", "open", "process_document">>),
          t \in Texts : OcrImg(tr, t)
    \/ \E b \in {"docx", "msg", "eml", "txt"}, t \in Texts :
          \E tr \in Outcomes(ParserCalls(b)) : ParseLocal(tr, t)
    \/ \E tr \in Outcomes(<<"storage.Client", "download_as_text">>),
          t \in Texts : TxtGcs(tr, t)
    \/ \E tr \in Outcomes(ScratchCalls(file_path)) : ScratchCreate(tr)
    \/ \E ok \in BOOLEAN : ScratchDownload(ok)
    \/ \E b \in {"ocr_img", "docx", "msg", "eml"}, t \in Texts :
          \E tr \in Outcomes(ParserCalls(b)) : ScratchExtract(tr, t)
    \/ AggregateResult({})

\* doc_ingestion_tool on every locator, with every outcome of its collaborators
Spec == Init /\ [][Next]_vars

\* a step of a running invocation: any step of Next but the caller's Invoke
Progress == Next /\ pc \notin {"idle", "done"}

\* every call made to a collaborator returns or raises, and the wait for the
\* batch job ends with the job or with its timeout: a running invocation
\* takes its next step
Live == Spec /\ WF_vars(Progress)

----------------------------------------------------------------------------
(* The analyzers on their own: each is applied to a text, an extension and a
   file name, and applied again to the same input or, for the quality
   scorer, to the text with one of its characters replaced by whitespace or
   by a special character. *)

FuzzAlphabet == {"a", "1", " ", "\n", ".", "U+00E9"}

AnalysisTexts ==
    UNION {[1..n -> FuzzAlphabet] : n \in 0..MaxLen}
    \cup {<<"a", "b", " ", "c", "d", " ", "1", "2", " ", "2", "1">>,
          <<"a", "@", "b", ".", "c", "c", " ", "d", "@", "b", ".", "c", "c">>,
          <<"h", "t", "t", "p", ":", "/", "/", "a", ".", "c", "c", " ", "h", "t", "t", "p", ":", "/", "/", "b", ".", "c", "c">>,
          <<"C", "V">>,
          <<"e", "m", "a", "i", "l", " ", "m", "e">>,
          <<"\t">>}

AnalysisLocators ==
    {[scheme |-> "local", stem |-> "deck", ext |-> ".txt"],
     [scheme |-> "gs://", stem |-> "Bill", ext |-> ".pdf"]}

AnalysisInit ==
    /\ state = [k \in {} |-> <<>>]
    /\ pc = "analysis"
    /\ tool = "none"
    /\ file_path \in AnalysisLocators
    /\ text \in AnalysisTexts
    /\ log = <<>>
    /\ listing = <<>>
    /\ exc = NoExc
    /\ scratch = {}
    /\ result = NoResult
    /\ pre = [k \in {} |-> <<>>]
    /\ calls = 0
    /\ runs = <<>>
    /\ bucket = {}
    /\ workers = NoWorkers

\* the texts got from t by putting c where a letter, a digit or another word
\* character was
Injected(t, c) == {[t EXCEPT ![i] = c] : i \in {k \in DOMAIN t : IsWordChar(t[k])}}

InjectedChars == {" ", "."}

\* a run is of the analyzer that ran first
CanRun(fn) ==
    /\ pc = "analysis"
    /\ Len(runs) < MaxRuns
    /\ runs # <<>> => runs[1].fn = fn

\* line 152
AnalyzeContent ==
    /\ CanRun("_analyze_document_content")
    /\ LET ext == file_extension(file_path)
           fname == filename(file_path)
       IN  runs' = Append(runs, Ran("_analyze_document_content", <<text, ext, fname>>, FALSE,
                                    _analyze_document_content(text, ext, fname, FALSE)))
    /\ UNCHANGED <<state, pc, tool, file_path, text, log, listing, exc, scratch, result, pre, calls, bucket, workers>>

\* line 161, on the text or, once the text has been scored, on text t got
\* from it
AnalyzeQuality(t) ==
    /\ CanRun("_analyze_content_quality")
    /\ t # text => runs # <<>>
    /\ LET ext == file_extension(file_path)
       IN  runs' = Append(runs, Ran("_analyze_content_quality", <<t, ext>>, FALSE,
                                    _analyze_content_quality(t, ext, FALSE)))
    /\ UNCHANGED <<state, pc, tool, file_path, text, log, listing, exc, scratch, result, pre, calls, bucket, workers>>

\* line 164
ExtractKeyInformation(emails, urls) ==
    /\ CanRun("_extract_key_information")
    /\ emails \in list_set(findall_email(text, 1))
    /\ urls \in list_set(findall_url(text, 1))
    /\ LET ext == file_extension(file_path)
           fname == filename(file_path)
       IN  runs' = Append(runs, Ran("_extract_key_information", <<text, ext, fname>>, FALSE,
                                    _extract_key_information(text, ext, fname, emails, urls, FALSE)))
    /\ UNCHANGED <<state, pc, tool, file_path, text, log, listing, exc, scratch, result, pre, calls, bucket, workers>>

\* lines 673, 904 and 688: the helpers, called on their own
DetectLanguage ==
    /\ CanRun("_detect_language")
    /\ runs' = Append(runs, Ran("_detect_language", <<text>>, FALSE, _detect_language(text)))
    /\ UNCHANGED <<state, pc, tool, file_path, text, log, listing, exc, scratch, result, pre, calls, bucket, workers>>

GenerateTitle ==
    /\ CanRun("_generate_document_title")
    /\ LET fname == filename(file_path)
       IN  runs' = Append(runs, Ran("_generate_document_title", <<text, fname>>, FALSE,
                                    _generate_document_title(text, fname)))
    /\ UNCHANGED <<state, pc, tool, file_path, text, log, listing, exc, scratch, result, pre, calls, bucket, workers>>

CalculateReadability ==
    /\ CanRun("_calculate_readability")
    /\ runs' = Append(runs, Ran("_calculate_readability", <<text>>, FALSE,
                                _calculate_readability(text)))
    /\ UNCHANGED <<state, pc, tool, file_path, text, log, listing, exc, scratch, result, pre, calls, bucket, workers>>

AnalysisNext ==
    \/ AnalyzeContent
    \/ AnalyzeQuality(text)
    \/ \E c \in InjectedChars : \E t \in Injected(text, c) : AnalyzeQuality(t)
    \/ \E emails \in list_set(findall_email(text, 1)), urls \in list_set(findall_url(text, 1)) :
          ExtractKeyInformation(emails, urls)

Analysis == AnalysisInit /\ [][AnalysisNext]_vars

\* the helpers on their own: the texts of the analyzers and texts with stop
\* words and with lines of the lengths the title is chosen by
HelperTexts ==
    AnalysisTexts
    \cup {<<"d", "e">>,
          <<"a", "t">>,
          <<"t", "h", "e">>,
          <<"a", "b", "c", "d", "e", "f", "g", "h", "i", "j">>,
          <<"a", "b", "c", "d", "e", "f", "g", "h", "i", "j", "k">>,
          <<"C", "C", "C", "C", "C", "C", "C", "C", "C", "C", "C", "\n",
            " ", "a", "b", "c", "d", "e", "f", "g", "h", "i", "j", "k">>,
          [i \in 1..99 |-> "a"],
          [i \in 1..100 |-> "a"]}

HelpersInit ==
    /\ state = [k \in {} |-> <<>>]
    /\ pc = "analysis"
    /\ tool = "none"
    /\ file_path \in AnalysisLocators
    /\ text \in HelperTexts
    /\ log = <<>>
    /\ listing = <<>>
    /\ exc = NoExc
    /\ scratch = {}
    /\ result = NoResult
    /\ pre = [k \in {} |-> <<>>]
    /\ calls = 0
    /\ runs = <<>>
    /\ bucket = {}
    /\ workers = NoWorkers

HelpersNext ==
    \/ DetectLanguage
    \/ GenerateTitle
    \/ CalculateReadability

Helpers == HelpersInit /\ [][HelpersNext]_vars

\* a session over text documents: several invocations of the three tools on
\* one shared context
SessionLocators == [scheme : {"local", "gs://"}, stem : {"deck"}, ext : {".txt", ".xyz"}]

SessionNext ==
    \/ \E fp \in SessionLocators : calls < MaxSessionCalls /\ Invoke(fp)
    \/ \E tr \in Outcomes(FileSizeCalls(file_path)) : GetFileSize(tr)
    \/ Dispatch
    \/ \E t \in Texts : \E tr \in Outcomes(ParserCalls("txt")) : ParseLocal(tr, t)
    \/ \E tr \in Outcomes(<<"storage.Client", "download_as_text">>),
          t \in Texts : TxtGcs(tr, t)
    \/ AggregateResult({})
    \/ \E fp \in SessionLocators, ok \in BOOLEAN, t \in Texts :
          calls < MaxSessionCalls /\ document_ai_ocr_tool(fp, ok, t)
    \/ \E fp \in AudioLocators, e \in {NoExc, NotFound, Forbidden}, t \in Texts :
          \E tr \in Outcomes(AudioCalls(fp)) :
              calls < MaxSessionCalls /\ audio_analysis_tool(fp, tr, e, t)

Session == Init /\ [][SessionNext]_vars

\* doc_ingestion_tool on text documents, with every combination of analyzers
\* in which something raises
DegradedNext ==
    \/ \E fp \in SessionLocators : calls < MaxCalls /\ Invoke(fp)
    \/ \E tr \in Outcomes(FileSizeCalls(file_path)) : GetFileSize(tr)
    \/ Dispatch
    \/ \E t \in Texts : \E tr \in Outcomes(ParserCalls("txt")) : ParseLocal(tr, t)
    \/ \E tr \in Outcomes(<<"storage.Client", "download_as_text">>),
          t \in Texts : TxtGcs(tr, t)
    \/ \E faults \in SUBSET Stages : AggregateResult(faults)

Degraded == Init /\ [][DegradedNext]_vars

\* documents of one session, one for each way a call can end: a format that
\* is not supported, a remote document fetched into a scratch file, a
\* document for the OCR executor and a text document
RepeatedLocators ==
    {[scheme |-> "local", stem |-> "deck", ext |-> ".xyz"],
     [scheme |-> "gs://", stem |-> "deck", ext |-> ".docx"],
     [scheme |-> "local", stem |-> "deck", ext |-> ".pdf"],
     [scheme |-> "local", stem |-> "deck", ext |-> ".txt"]}

RepeatedNext ==
    \/ \E fp \in RepeatedLocators : calls < MaxSessionCalls /\ Invoke(fp)
    \/ \E tr \in Outcomes(FileSizeCalls(file_path)) : GetFileSize(tr)
    \/ Dispatch
    \/ \E tr \in Outcomes(OcrPdfBeginCalls(file_path)) : OcrPdfBegin(tr)
    \/ \E ok \in BOOLEAN, t \in Texts : SyncAttempt(ok, t)
    \/ \E tr \in EnsureBucketOutcomes : BatchFallback(tr)
    \/ \E ok \in BOOLEAN : BatchSubmit(ok)
    \/ \E ok \in BOOLEAN, e \in WaitErrors : BatchWait(ok, e)
    \/ \E tr \in Outcomes(ListCalls(file_path)), blobs \in Listings, readable \in BOOLEAN :
          BatchFetch(tr, blobs, readable)
    \/ \E t \in Texts : \E tr \in Outcomes(ParserCalls("txt")) : ParseLocal(tr, t)
    \/ \E tr \in Outcomes(ScratchCalls(file_path)) : ScratchCreate(tr)
    \/ \E ok \in BOOLEAN : ScratchDownload(ok)
    \/ \E t \in Texts : \E tr \in Outcomes(ParserCalls("docx")) : ScratchExtract(tr, t)
    \/ AggregateResult({})

\* doc_ingestion_tool called again and again on one shared context
Repeated == Init /\ [][RepeatedNext]_vars

----------------------------------------------------------------------------
(* Batch jobs and the objects they leave in storage.  A job writes its
   artifact under the output location it was given, in a folder named by the
   operation id the service chose for it; list_blobs(prefix) returns the
   objects whose name starts with the prefix, in the order of their names. *)

\* pdf documents of one session: two on disk, the name stem of one a prefix
\* of the other's, and two in one remote folder
BatchLocators ==
    {[scheme |-> "local", stem |-> "deck", ext |-> ".pdf"],
     [scheme |-> "local", stem |-> "deck2", ext |-> ".pdf"],
     [scheme |-> "gs://", stem |-> "deck", ext |-> ".pdf"],
     [scheme |-> "gs://", stem |-> "plan", ext |-> ".pdf"]}

\* lines 264, 273, 279 and 473: where the job is told to write, the bucket
\* and the folder:  <project>-documentai-temp  and  output/<stem>/  for a
\* file on disk,  output/  beside the document for a remote one
OutputLocation(fp) ==
    IF is_gcs_url(fp)
    THEN [root |-> "folder of the document", dir |-> "output"]
    ELSE [root |-> "documentai-temp", dir |-> fp.stem]

\* str.startswith on the folder names of the model
startswith(name, prefix) == name = prefix \/ (prefix = "deck" /\ name = "deck2")

\* lines 300 and 494-496: the objects list_blobs returns for the prefix
\* output/<stem>  (no trailing slash) or  <folder>/output/
Listed(fp) ==
    {b \in bucket : /\ b.root = OutputLocation(fp).root
                    /\ startswith(b.dir, OutputLocation(fp).dir)}

\* the order of two object names:  output/deck/...  sorts before
\* output/deck2/... , and within a folder the operation ids decide
Before(a, b) ==
    IF a.dir # b.dir THEN a.dir = "deck" ELSE a.op < b.op

\* list(bucket.list_blobs(prefix=...)): the objects in the order of their names
Sorted(S) ==
    CHOOSE q \in [1..Cardinality(S) -> S] :
        \A i, j \in 1..Cardinality(S) : i < j => (q[i] # q[j] /\ Before(q[i], q[j]))

\* the operation ids the service can give to a job
OperationIds == 1..MaxSessionCalls

\* lines 296-297 and 488-489: the job runs and the caller waits for it; a
\* job that completes has written the document's text t as its artifact
BatchJob(ok, e, op, t) ==
    /\ pc = "wait"
    /\ e \in WaitErrors
    /\ op \in OperationIds \ {b.op : b \in bucket}
    /\ t \in Texts \ {<<>>}
    /\ log' = Append(log, Ev("operation.result", ok, <<>>))
    /\ IF ok
       THEN /\ bucket' = bucket \cup
                    {[root |-> OutputLocation(file_path).root,
                      dir |-> OutputLocation(file_path).dir,
                      op |-> op, job |-> calls, json |-> TRUE, text |-> t]}
            /\ pc' = "fetch"
            /\ UNCHANGED <<exc, result>>
       ELSE /\ bucket' = bucket
            /\ RaiseWrapped(e)
    /\ UNCHANGED <<state, tool, file_path, text, listing, scratch, pre, calls, runs, workers>>

\* lines 299-307 and 491-504 on the objects in storage
BatchFetchStored(tr, readable) ==
    LET blobs == Sorted(Listed(file_path)) IN
    /\ pc = "fetch"
    /\ tr \in Outcomes(ListCalls(file_path))
    /\ IF Failed(tr)
       THEN /\ readable
            /\ log' = log \o tr
            /\ listing' = listing
            /\ text' = text
            /\ RaiseWrapped(ErrorOf(tr))
       ELSE /\ listing' = blobs
            /\ IF FirstJson(blobs) = 0
               THEN /\ readable
                    /\ log' = log \o tr
                    /\ text' = BatchResultText(blobs)
                    /\ pc' = "aggregate"
                    /\ UNCHANGED <<exc, result>>
               ELSE IF ~readable
               THEN /\ log' = log \o tr \o <<Ev("download_as_text", FALSE, <<>>)>>
                    /\ text' = text
                    /\ RaiseWrapped(BadJson)
               ELSE /\ log' = log \o tr \o <<Ev("download_as_text", TRUE, blobs[FirstJson(blobs)].text)>>
                    /\ text' = BatchResultText(blobs)
                    /\ pc' = "aggregate"
                    /\ UNCHANGED <<exc, result>>
    /\ UNCHANGED <<state, tool, file_path, scratch, pre, calls, runs, bucket, workers>>

BatchNext ==
    \/ \E fp \in BatchLocators : calls < MaxSessionCalls /\ Invoke(fp)
    \/ \E tr \in Outcomes(FileSizeCalls(file_path)) : GetFileSize(tr)
    \/ Dispatch
    \/ \E tr \in Outcomes(OcrPdfBeginCalls(file_path)) : OcrPdfBegin(tr)
    \/ \E ok \in BOOLEAN, t \in Texts : SyncAttempt(ok, t)
    \/ \E tr \in EnsureBucketOutcomes : BatchFallback(tr)
    \/ \E ok \in BOOLEAN : BatchSubmit(ok)
    \/ \E ok \in BOOLEAN, e \in WaitErrors, op \in OperationIds, t \in Texts :
          BatchJob(ok, e, op, t)
    \/ \E tr \in Outcomes(ListCalls(file_path)), readable \in BOOLEAN :
          BatchFetchStored(tr, readable)
    \/ AggregateResult({})

\* pdf documents ingested one after the other, the batch jobs leaving their
\* artifacts in storage
Batch == Init /\ [][BatchNext]_vars

----------------------------------------------------------------------------
(* Invocations of doc_ingestion_tool that run at the same time on one shared
   context.  Extraction touches nothing shared; the statements of lines
   167-178 are taken one access to tool_context.state at a time:
   state[k] += v  is a read of state[k], a concatenation and a write. *)

\* the document of each invocation and the text its backend returns
WorkerPath(w) == [scheme |-> "local", stem |-> "deck", ext |-> ".txt"]

WorkerText(w) == <<IF w = 1 THEN "a" ELSE IF w = 2 THEN "b" ELSE "c">>

InFlight(w) == workers[w].pc \notin {"idle", "done"}

\* an accumulator write that drops what was read
JoinedOverwrites(old, t) == t

\* line 168: the value  state["startup_information"] + "\n\n\n\n\n" + extracted_text
Joined(old, t) == old \o Separator \o t

OnlyContext == UNCHANGED <<pc, tool, file_path, text, log, listing, exc, scratch, result,
                           pre, calls, runs, bucket>>

\* lines 22-147: the invocation is entered and its text is extracted, or
\* extraction fails and the failure record is returned
Enter(w, ok) ==
    /\ workers[w].pc = "idle"
    /\ workers' = [workers EXCEPT
                      ![w].pc = IF ok THEN "test" ELSE "done",
                      ![w].status = IF ok THEN "none" ELSE "failure",
                      ![w].overlapped = \E v \in DOMAIN workers : InFlight(v)]
    /\ state' = state
    /\ OnlyContext

\* line 167:  "startup_information" in tool_context.state
TestKey(w) ==
    /\ workers[w].pc = "test"
    /\ workers' = [workers EXCEPT
                      ![w].pc = IF "startup_information" \in DOMAIN state
                                THEN "read" ELSE "assign"]
    /\ state' = state
    /\ OnlyContext

\* line 168, the read of  +=
ReadText(w) ==
    /\ workers[w].pc = "read"
    /\ workers' = [workers EXCEPT ![w].pc = "write",
                                  ![w].seen = state["startup_information"]]
    /\ state' = state
    /\ OnlyContext

\* line 168, the write of  +=
WriteJoined(w) ==
    /\ workers[w].pc = "write"
    /\ state' = Put(state, "startup_information", Joined(workers[w].seen, WorkerText(w)))
    /\ workers' = [workers EXCEPT ![w].pc = "store"]
    /\ OnlyContext

\* line 170
AssignText(w) ==
    /\ workers[w].pc = "assign"
    /\ state' = Put(state, "startup_information", WorkerText(w))
    /\ workers' = [workers EXCEPT ![w].pc = "store"]
    /\ OnlyContext

\* lines 172-187: the sub-records are stored and the success record returned
StoreAndReturn(w) ==
    /\ workers[w].pc = "store"
    /\ state' = StoreSubRecords(state, WorkerPath(w),
                    SuccessRecord(WorkerText(w),
                                  Analyses(WorkerPath(w), WorkerText(w), DocumentBytes, 0, {}, <<>>, <<>>)))
    /\ workers' = [workers EXCEPT ![w].pc = "done", ![w].status = "success"]
    /\ OnlyContext

ConcurrentNext ==
    \E w \in 1..MaxWorkers :
        \/ \E ok \in BOOLEAN : Enter(w, ok)
        \/ TestKey(w)
        \/ ReadText(w)
        \/ WriteJoined(w)
        \/ AssignText(w)
        \/ StoreAndReturn(w)

\* invocations started by a caller that does not wait for the one before
Concurrent == Init /\ [][ConcurrentNext]_vars

----------------------------------------------------------------------------
(* Vocabulary of the properties *)

DocCall == tool = "doc_ingestion_tool" /\ file_path \in Locators

Returned == pc = "done"

Happened(op, ok) == \E i \in DOMAIN log : log[i].op = op /\ log[i].ok = ok

Count(op) == Cardinality({i \in DOMAIN log : log[i].op = op})

StorageOps == {"storage.Client", "blob.size", "get_bucket", "create_bucket",
               "upload_from_filename", "list_blobs", "download_as_text",
               "download_to_filename"}

BackendOps == {"DocumentProcessorServiceClient", "process_document",
               "batch_process_documents", "operation.result", "docx.Document",
               "extract_msg.Message", "email.message_from_bytes", "open",
               "NamedTemporaryFile", "download_as_text", "download_to_filename"}

BatchOps == {"get_bucket", "create_bucket", "upload_from_filename",
             "batch_process_documents", "operation.result", "list_blobs"}

IsPdf == DocCall /\ file_extension(file_path) \in {".pdf", ".tiff"}

\* position of the synchronous OCR call in log (0 when it has not been made)
SyncAt ==
    IF \E i \in DOMAIN log : log[i].op = "process_document"
    THEN CHOOSE i \in DOMAIN log : log[i].op = "process_document"
    ELSE 0

SyncRaised == IsPdf /\ SyncAt > 0 /\ ~log[SyncAt].ok

SyncSucceeded == IsPdf /\ SyncAt > 0 /\ log[SyncAt].ok

----------------------------------------------------------------------------
(* C1: doc_ingestion_tool never lets an exception reach its caller: whenever
   an exception escapes format resolution or a helper (storage call,
   extraction backend, batch job), the call ends by returning a record with
   status "failure" that has both an error message and an error_type; and a
   call always ends with a success or a failure record. *)
C1_NeverPropagates ==
    /\ (tool = "doc_ingestion_tool" /\ Returned) => result.status \in {"success", "failure"}
    /\ (tool = "doc_ingestion_tool" /\ exc # NoExc) =>
          /\ Returned
          /\ result.status = "failure"
          /\ {"error", "error_type"} \subseteq DOMAIN result
          /\ result.error # <<>>
          /\ result.error_type # ""

C1_Witness ==
    /\ DocCall /\ Returned
    /\ exc = JobFailed
    /\ result.status = "failure"
    /\ result.error_type = "Exception"

(* C2: a locator, local or remote, whose lower-cased extension is none of the
   nine supported ones is answered with status "failure" and the list of the
   nine supported formats, and no extraction backend is called on the way. *)
C2_UnsupportedRejected ==
    (DocCall /\ Lower(file_path.ext) \notin {".pdf", ".tiff", ".png", ".jpg", ".jpeg",
                                               ".docx", ".eml", ".msg", ".txt"}) =>
        /\ \A i \in DOMAIN log : log[i].op \notin BackendOps
        /\ pc \in {"file_size", "dispatch", "done"}
        /\ Returned =>
              /\ result.status = "failure"
              /\ "supported_formats" \in DOMAIN result
              /\ result.supported_formats =
                    <<".pdf", ".tiff", ".png", ".jpg", ".jpeg", ".docx", ".eml", ".msg", ".txt">>

C2_Witness ==
    /\ DocCall /\ Returned
    /\ file_path.ext = ".xyz"
    /\ is_gcs_url(file_path)
    /\ result.status = "failure"
    /\ "supported_formats" \in DOMAIN result

(* C3: on a locator with an unsupported extension nothing is asked of object
   storage (client, bucket/blob, size) nor of a backend before the rejection
   is returned, for remote locators as for local ones. *)
C3_RejectionBeforeAnyCollaborator ==
    (DocCall /\ backend_of(file_path) = "unsupported") =>
        \A i \in DOMAIN log : log[i].op \notin (StorageOps \cup BackendOps)

(* C4: for a pdf/tiff document whose synchronous OCR call succeeds, the
   executor returns that call's text at once: nothing of batch mode (bucket,
   upload, submission, wait, listing) happens in the invocation, and the
   invocation's extracted_text is the text of the synchronous call. *)
C4_SyncSuccessIsDirect ==
    SyncSucceeded =>
        /\ \A i \in DOMAIN log : log[i].op \notin BatchOps
        /\ SyncAt = Len(log)
        /\ pc \in {"aggregate", "done"}
        /\ exc = NoExc
        /\ text = log[SyncAt].val
        /\ Returned => (result.status = "success" /\ result.extracted_text = log[SyncAt].val)

C4_Witness ==
    /\ SyncSucceeded /\ Returned
    /\ ~is_gcs_url(file_path)
    /\ result.status = "success"
    /\ result.extracted_text = <<"a">>

\* position of a call in log (0 when it has not been made)
Pos(op) ==
    IF \E i \in DOMAIN log : log[i].op = op
    THEN CHOOSE i \in DOMAIN log : log[i].op = op
    ELSE 0

\* op was called after the synchronous attempt, and only after prev had returned
Follows(op, prev) ==
    Pos(op) > SyncAt => (Happened(prev, TRUE) /\ Pos(prev) > SyncAt /\ Pos(prev) < Pos(op))

(* C5 as stated: for a pdf/tiff document whose synchronous OCR call raises,
   the invocation performs exactly one batch submission and exactly one wait,
   and when the wait completes and a ".json" artifact is listed it returns
   status "success" with the text of the first listed artifact. *)
C5_ExactlyOneSubmissionAndWait ==
    (SyncRaised /\ Returned) =>
        /\ Count("batch_process_documents") = 1
        /\ Count("operation.result") = 1
        /\ (Happened("operation.result", TRUE) /\ FirstJson(listing) # 0) =>
              /\ result.status = "success"
              /\ result.extracted_text = listing[FirstJson(listing)].text

(* C5 as amended: for a pdf/tiff document whose synchronous OCR call raises,
   the invocation performs at most one batch submission and at most one wait,
   in the order (local files: ensure bucket, upload) -> submit -> wait -> list
   -> read, each step only after the one before it has returned; the
   submission is made exactly once when ensuring the bucket and uploading did
   not raise, and the wait exactly once when the submission did not raise;
   when the wait completes, a ".json" artifact is listed and reading it does
   not raise, the invocation returns status "success" with the text of the
   first listed ".json" artifact. *)
C5_BatchFallbackInOrder ==
    SyncRaised =>
        /\ \A op \in BatchOps \cup {"download_as_text"} : Count(op) <= 1
        /\ \A i \in DOMAIN log : log[i].op \in BatchOps \cup {"download_as_text"} => i > SyncAt
        /\ IF is_gcs_url(file_path)
           THEN \A op \in {"get_bucket", "create_bucket", "upload_from_filename"} : Count(op) = 0
           ELSE /\ Pos("create_bucket") > 0 =>
                      (Happened("get_bucket", FALSE) /\ Pos("get_bucket") < Pos("create_bucket"))
                /\ Pos("upload_from_filename") > 0 =>
                      /\ Happened("get_bucket", TRUE) \/ Happened("create_bucket", TRUE)
                      /\ Pos("get_bucket") < Pos("upload_from_filename")
                      /\ Pos("create_bucket") < Pos("upload_from_filename")
                /\ Follows("batch_process_documents", "upload_from_filename")
        /\ Follows("operation.result", "batch_process_documents")
        /\ Follows("list_blobs", "operation.result")
        /\ Follows("download_as_text", "list_blobs")
        /\ Returned =>
              /\ (is_gcs_url(file_path) \/ Happened("upload_from_filename", TRUE)) =>
                    Count("batch_process_documents") = 1
              /\ Happened("batch_process_documents", TRUE) => Count("operation.result") = 1
              /\ (Happened("operation.result", TRUE) /\ FirstJson(listing) # 0
                    /\ Happened("download_as_text", TRUE)) =>
                    /\ result.status = "success"
                    /\ result.extracted_text = listing[FirstJson(listing)].text

C5_Witness ==
    /\ SyncRaised /\ Returned
    /\ ~is_gcs_url(file_path)
    /\ Happened("create_bucket", TRUE)
    /\ Len(listing) = 2 /\ ~listing[1].json /\ listing[2].json
    /\ result.status = "success"
    /\ result.extracted_text = <<"a">>

(* C6: when the wait for the batch job exceeds its 30 minutes, the call
   returns status "failure" with error_type "BatchTimeout" and no
   extracted_text, and nothing is appended to the accumulator. *)
C6_TimeoutIsBatchTimeout ==
    (DocCall /\ Returned /\ exc = Timeout) =>
        /\ result.status = "failure"
        /\ result.error_type = "BatchTimeout"
        /\ "extracted_text" \notin DOMAIN result
        /\ state = pre

(* C7: when the batch job completes and the listing of the result location
   holds no artifact whose name ends in ".json", the executor returns the
   empty string and not an error, so the call returns status "success" with
   extracted_text = "", for a local and for a remote pdf/tiff alike. *)
C7_NoArtifactIsEmptyText ==
    (SyncRaised /\ Happened("operation.result", TRUE) /\ Happened("list_blobs", TRUE)
        /\ \A i \in DOMAIN listing : ~listing[i].json) =>
        /\ pc \in {"aggregate", "done"}
        /\ exc = NoExc
        /\ text = <<>>
        /\ Returned => (result.status = "success" /\ result.extracted_text = <<>>)

C7_Witness ==
    /\ SyncRaised /\ Returned
    /\ is_gcs_url(file_path)
    /\ Happened("list_blobs", TRUE)
    /\ Len(listing) = 1 /\ ~listing[1].json
    /\ result.status = "success"
    /\ result.extracted_text = <<>>

(* C8: every scratch file doc_ingestion_tool creates for a remote document
   (png/jpg/jpeg, docx, msg, eml) is gone when the call returns, whether the
   extraction succeeded or the download, the parser or the OCR call failed:
   a scratch file exists only between its creation and the end of the helper
   that made it. *)
C8_ScratchReleased ==
    /\ scratch # {} => (pc \in {"download", "extract"} /\ scratch = {ScratchFile})
    /\ (tool = "doc_ingestion_tool" /\ pc \in {"aggregate", "done"}) =>
          {f \in scratch : f.call = calls} = {}

C8_Witness ==
    /\ DocCall /\ Returned
    /\ Happened("NamedTemporaryFile", TRUE)
    /\ Happened("download_to_filename", TRUE)
    /\ Happened("process_document", FALSE)
    /\ result.status = "failure"
    /\ scratch = {}

(* C9: after a successful doc_ingestion_tool call the accumulator is its
   previous value, the separator and the new text when it already held a
   non-empty value, and the new text alone otherwise. *)
C9_SeparatorOnlyAfterContent ==
    (DocCall /\ Returned /\ result.status = "success") =>
        state["startup_information"] =
            IF "startup_information" \in DOMAIN pre /\ pre["startup_information"] # <<>>
            THEN pre["startup_information"] \o <<"\n", "\n", "\n", "\n", "\n">> \o result.extracted_text
            ELSE result.extracted_text

(* C10: the accumulator is append-only across the tools that write it
   (doc_ingestion_tool, document_ai_ocr_tool, audio_analysis_tool): its value
   before a call is a prefix of its value after the call. *)
C10_AppendOnly ==
    (Returned /\ "startup_information" \in DOMAIN pre) =>
        /\ "startup_information" \in DOMAIN state
        /\ IsPrefix(pre["startup_information"], state["startup_information"])

----------------------------------------------------------------------------
(* Vocabulary of the properties on the analyzers *)

\* the sub-record of the returned record that a stage filled
SubRecord(stage) ==
    CASE stage = "_analyze_document_content" -> result.document_analysis
      [] stage = "_generate_file_metadata" -> result.file_metadata
      [] stage = "_analyze_content_quality" -> result.quality_metrics
      [] stage = "_extract_key_information" -> result.content_analysis

ErrorField(stage) ==
    CASE stage = "_analyze_document_content" -> "analysis_error"
      [] stage = "_generate_file_metadata" -> "metadata_error"
      [] stage = "_analyze_content_quality" -> "analysis_error"
      [] stage = "_extract_key_information" -> "extraction_error"

\* the record a stage returns for empty text
EmptyStructure(stage) ==
    CASE stage = "_analyze_document_content" -> EmptyContentAnalysis
      [] stage = "_analyze_content_quality" -> EmptyQuality
      [] stage = "_extract_key_information" -> EmptyKeyInformation

\* the text the extraction backend handed over: the value of its last call
BackendText == log[Len(log)].val

EndsWith(s, t) == Len(s) >= Len(t) /\ SubSeq(s, Len(s) - Len(t) + 1, Len(s)) = t

SomeStageRaised == \E i \in DOMAIN runs : runs[i].raised

(* C11 as stated: when the content analyzer, the quality scorer, the key
   information extractor or the metadata generator raises inside, the call
   still returns status "success" with the backend's text as extracted_text,
   and the sub-record of the failed stage is the stage's empty/zero
   structure (the one it returns for empty text) with an "*_error" field
   added. *)
C11_DegradesToEmptyStructure ==
    (DocCall /\ Returned /\ SomeStageRaised) =>
        /\ result.status = "success"
        /\ result.extracted_text = BackendText
        /\ \A i \in DOMAIN runs : runs[i].raised =>
              LET r == SubRecord(runs[i].fn) IN
              /\ ErrorField(runs[i].fn) \in DOMAIN r
              /\ runs[i].fn # "_generate_file_metadata" =>
                    \A k \in DOMAIN EmptyStructure(runs[i].fn) :
                        k \in DOMAIN r /\ r[k] = EmptyStructure(runs[i].fn)[k]

(* C11 as amended: when a post-extraction stage raises inside, the call
   still returns status "success" with the backend's text as extracted_text
   and with the text appended to the accumulator, and the sub-record of the
   failed stage carries its error field (analysis_error, metadata_error,
   extraction_error) next to zero word/sentence/paragraph counts, score and
   confidence and empty lists; it is not the record of empty text: the
   content analyzer's keeps content_length = len(text) and has document_type
   "unknown", the quality scorer's has encoding_issues 1, integrity
   "unknown" and issues ["Analysis error"], the key extractor's summary is
   "Error in information extraction", and the metadata generator's keeps
   the file's name, extension, method, origin and path. *)
C11_AnalysisFailureKeepsText ==
    (DocCall /\ Returned /\ SomeStageRaised) =>
        /\ result.status = "success"
        /\ result.extracted_text = BackendText
        /\ EndsWith(state["startup_information"], BackendText)
        /\ \A i \in DOMAIN runs : runs[i].raised =>
              LET r == SubRecord(runs[i].fn) IN
              /\ ErrorField(runs[i].fn) \in DOMAIN r
              /\ r[ErrorField(runs[i].fn)] # <<>>
              /\ runs[i].fn = "_analyze_document_content" =>
                    /\ r.word_count = 0 /\ r.sentence_count = 0 /\ r.paragraph_count = 0
                    /\ r.content_length = Len(BackendText)
                    /\ r.document_type = "unknown"
                    /\ r.content_categories = <<>> /\ r.key_sections = <<>>
              /\ runs[i].fn = "_analyze_content_quality" =>
                    /\ r.text_quality_score = 0 /\ r.ocr_confidence = 0
                    /\ r.encoding_issues = 1
                    /\ r.text_integrity = "unknown"
                    /\ r.quality_issues = <<"Analysis error">>
              /\ runs[i].fn = "_extract_key_information" =>
                    /\ r.email_addresses = <<>> /\ r.urls = <<>> /\ r.key_entities = <<>>
                    /\ r.summary = "Error in information extraction"
              /\ runs[i].fn = "_generate_file_metadata" =>
                    /\ r.filename = filename(file_path)
                    /\ r.file_extension = file_extension(file_path)
                    /\ r.file_path = file_path

C11_Witness ==
    /\ DocCall /\ Returned
    /\ Len(runs) = 4
    /\ runs[3].raised /\ ~runs[1].raised
    /\ result.status = "success"
    /\ result.extracted_text = <<"a">>
    /\ "analysis_error" \in DOMAIN result.quality_metrics
    /\ "analysis_error" \notin DOMAIN result.document_analysis

\* the runs of one analyzer
RunsOf(fn) == {i \in DOMAIN runs : runs[i].fn = fn}

\* the text a run was made on
TextOf(i) == runs[i].args[1]

\* the fields of a sub-record that the data model lists
DataModelFields(fn) ==
    CASE fn = "_analyze_document_content" ->
            {"content_length", "word_count", "sentence_count", "paragraph_count",
             "language", "document_type", "structure_analysis", "content_categories",
             "key_sections", "readability_score"}
      [] fn = "_analyze_content_quality" ->
            {"text_quality_score", "ocr_confidence", "text_integrity", "quality_issues"}
      [] fn = "_extract_key_information" ->
            {"document_title", "key_entities", "important_numbers", "dates",
             "email_addresses", "urls", "phone_numbers", "financial_data",
             "contact_information", "business_terms", "summary", "extraction_confidence"}

\* the fields an analyzer returns for text that is not empty
FieldsForText(fn) ==
    CASE fn = "_analyze_document_content" ->
            DOMAIN _analyze_document_content(<<"a">>, ".txt", <<"deck", ".txt">>, FALSE)
      [] fn = "_analyze_content_quality" ->
            DOMAIN _analyze_content_quality(<<"a">>, ".txt", FALSE)
      [] fn = "_extract_key_information" ->
            DOMAIN _extract_key_information(<<"a">>, ".txt", <<"deck", ".txt">>, <<>>, <<>>, FALSE)

(* C12: for text that is empty or only whitespace, the content analyzer, the
   quality scorer and the key information extractor each return a record
   that has every field the analyzer returns for non-empty text and the data
   model lists (extraction_confidence among them), with all counts zero, the
   quality score 0, integrity "poor" and issues ["Empty content"]. *)
C12_EmptyRecordsFullyPopulated ==
    \A i \in RunsOf("_analyze_document_content") \cup RunsOf("_analyze_content_quality")
                 \cup RunsOf("_extract_key_information") : IsBlank(TextOf(i)) =>
        LET r == runs[i].out
            fn == runs[i].fn
        IN  /\ (DataModelFields(fn) \cap FieldsForText(fn)) \subseteq DOMAIN r
            /\ fn = "_analyze_document_content" =>
                  /\ r.content_length = 0 /\ r.word_count = 0
                  /\ r.sentence_count = 0 /\ r.paragraph_count = 0
            /\ fn = "_analyze_content_quality" =>
                  /\ r.text_quality_score = 0
                  /\ r.text_integrity = "poor"
                  /\ r.quality_issues = <<"Empty content">>
            /\ fn = "_extract_key_information" =>
                  /\ r.email_addresses = <<>> /\ r.urls = <<>>
                  /\ r.key_entities = <<>> /\ r.important_numbers = <<>>

DocumentTypes ==
    {"pitch_deck", "business_plan", "financial_document", "legal_document",
     "resume", "email", "invoice", "report", "general_document"}

(* C13: whatever the text, the extension and the file name, empty or blank
   text and a failure inside the analyzer included, the document_type in the
   document_analysis of a returned record is one of the nine of the closed
   enumeration. *)
C13_DocumentTypeClosed ==
    (DocCall /\ Returned /\ result.status = "success") =>
        result.document_analysis.document_type \in DocumentTypes

(* C14: two runs of the content analyzer, of the quality scorer or of the key
   information extractor on the same text, extension and file name return
   the same record, the order of the elements of email_addresses and urls
   included. *)
C14_AnalysesDeterministic ==
    \A i, j \in DOMAIN runs :
        (runs[i].fn = runs[j].fn /\ runs[i].args = runs[j].args) =>
            runs[i].out = runs[j].out

\* the runs of the quality scorer
QualityRuns == RunsOf("_analyze_content_quality")

\* what a text has of whitespace (space, tab, line break), of line breaks and
\* of special characters (neither alphanumeric nor whitespace)
WhitespaceIn(t) == Cardinality({k \in DOMAIN t : t[k] \in {" ", "\t", "\n"}})

LineBreaksIn(t) == Cardinality({k \in DOMAIN t : t[k] = "\n"})

SpecialIn(t) == Cardinality({k \in DOMAIN t : ~IsWordChar(t[k]) /\ ~IsSpace(t[k])})

\* the issues that the three heuristics report
HeuristicIssues ==
    {"Possible word splitting", "Possible number splitting", "Non-ASCII characters detected"}

\* how many heuristics a record reports as detected
Detected(r) ==
    Cardinality({k \in DOMAIN r.quality_issues : r.quality_issues[k] \in HeuristicIssues})

\* the score of the formula: 100, less 20, 15, 10 for the three ratios and 5
\* for each of d detected heuristics, clamped
FormulaScore(t, d) ==
    LET raw == 100 - (IF 10 * WhitespaceIn(t) > 3 * Len(t) THEN 20 ELSE 0)
                   - (IF 10 * SpecialIn(t) > Len(t) THEN 15 ELSE 0)
                   - (IF 10 * LineBreaksIn(t) > Len(t) THEN 10 ELSE 0)
                   - 5 * d
    IN  IF raw < 0 THEN 0 ELSE IF raw > 100 THEN 100 ELSE raw

\* the record of a run has the score of the formula, the confidence
\* score / 100 (in thousandths) within [0, 1], and the tier of the score
FollowsFormula(i) ==
    LET r == runs[i].out
        score == r.text_quality_score
    IN  /\ Detected(r) <= 3
        /\ score = FormulaScore(TextOf(i), Detected(r))
        /\ r.ocr_confidence = 10 * score
        /\ r.ocr_confidence \in 0..1000
        /\ (r.text_integrity = "excellent") <=> (score >= 90)
        /\ (r.text_integrity = "good") <=> (75 <= score /\ score < 90)
        /\ (r.text_integrity = "fair") <=> (60 <= score /\ score < 75)
        /\ (r.text_integrity = "poor") <=> (score < 60)

(* C15 as stated: for every text the quality scorer returns the score of the
   formula, confidence score / 100 and the tier of the score. *)
C15_FormulaForEveryText ==
    \A i \in QualityRuns : FollowsFormula(i)

(* C15: for every text with a character that is not whitespace, the quality
   scorer returns the score of the formula (100, less 20 if the ratio of
   spaces, tabs and line breaks exceeds 0.3, less 15 if the ratio of
   characters that are neither word characters nor whitespace exceeds 0.1,
   less 10 if the ratio of line breaks exceeds 0.1, less 5 for each of the at
   most three detected heuristics, clamped to [0, 100]), the confidence
   score / 100 and the tier of the score; for empty or whitespace-only text
   it returns score 0, confidence 0 and tier "poor". *)
C15_FormulaForTextWithContent ==
    \A i \in QualityRuns :
        IF IsBlank(TextOf(i))
        THEN /\ runs[i].out.text_quality_score = 0
             /\ runs[i].out.ocr_confidence = 0
             /\ runs[i].out.text_integrity = "poor"
        ELSE FollowsFormula(i)

\* a run on a text of special characters, line breaks and a non-ASCII
\* letter, which loses 20, 15, 10 and 5 points
C15_Witness ==
    \E i \in QualityRuns :
        /\ TextOf(i) = <<"\n", ".", "U+00E9">>
        /\ runs[i].out.text_quality_score = 50
        /\ runs[i].out.text_integrity = "poor"
        /\ runs[i].out.ocr_confidence = 500

\* a text of ASCII characters only
IsAscii(t) == \A k \in DOMAIN t : t[k] \notin NonAscii

\* clean plain text: not empty, ASCII, whitespace ratio below 0.3, special
\* character and line break ratios at most 0.1
IsClean(t) ==
    /\ t # <<>>
    /\ IsAscii(t)
    /\ 10 * WhitespaceIn(t) < 3 * Len(t)
    /\ 10 * SpecialIn(t) <= Len(t)
    /\ 10 * LineBreaksIn(t) <= Len(t)

(* C16: for every clean plain text (not empty, ASCII, whitespace ratio below
   0.3, special character ratio at most 0.1, line break ratio at most 0.1),
   text of several words and text with numbers separated by spaces included,
   the quality score is at least 90 and the tier is "excellent". *)
C16_CleanTextIsExcellent ==
    \A i \in QualityRuns : IsClean(TextOf(i)) =>
        /\ runs[i].out.text_quality_score >= 90
        /\ runs[i].out.text_integrity = "excellent"

\* a run on a clean text of several words and of numbers separated by a
\* space, for which both splitting heuristics fire
C16_Witness ==
    \E i \in QualityRuns :
        /\ IsClean(TextOf(i))
        /\ Detected(runs[i].out) = 2
        /\ runs[i].out.text_quality_score = 90
        /\ runs[i].out.text_integrity = "excellent"

\* t is s with some word characters replaced by whitespace or special
\* characters
Denser(s, t) ==
    /\ Len(s) = Len(t)
    /\ s # t
    /\ \A k \in DOMAIN s : t[k] # s[k] => (IsWordChar(s[k]) /\ ~IsWordChar(t[k]))

(* C17: for two texts of the same length, the second being the first with
   characters replaced by whitespace or special characters, the quality
   score of the second is at most the quality score of the first. *)
C17_ScoreMonotone ==
    \A i, j \in QualityRuns :
        Denser(TextOf(i), TextOf(j)) =>
            runs[j].out.text_quality_score <= runs[i].out.text_quality_score

\* an invocation that has been entered and has not returned
Running == DocCall /\ pc \notin {"idle", "done"}

(* C18: every invocation of doc_ingestion_tool eventually returns a result
   record: when every call to a collaborator returns or raises and the wait
   for the batch job is bounded by its timeout, a running invocation
   eventually reaches a terminal state with a success or a failure record. *)
C18_EventuallyReturns ==
    Running ~> (Returned /\ result.status \in {"success", "failure"})

\* an invocation that waited for its batch job until the timeout and returned
C18_Witness ==
    /\ DocCall /\ Returned
    /\ Happened("operation.result", FALSE)
    /\ exc = Timeout
    /\ result.status = "failure"

\* a call on a document of a format routed to the OCR executor
IsOcrFormat ==
    DocCall /\ file_extension(file_path) \in {".pdf", ".tiff", ".png", ".jpg", ".jpeg"}

\* the invocation has entered the batch fallback: a call of the batch path
\* has been made
InBatchFallback == \E i \in DOMAIN log : log[i].op \in BatchOps

(* C19: for a pdf, tiff, png, jpg or jpeg document, local or remote, an
   exception raised by the synchronous OCR call leads to the batch fallback
   and not directly to a failure result: a returned call whose synchronous
   OCR call raised has entered the batch path. *)
C19_FallbackForEveryOcrFormat ==
    (IsOcrFormat /\ Returned /\ Happened("process_document", FALSE)) => InBatchFallback

\* the calls that invoke a backend on a local copy: the OCR service call and
\* the docx, msg and eml parsers with the opening of the file they read
LocalCopyBackendOps ==
    {"process_document", "docx.Document", "extract_msg.Message",
     "email.message_from_bytes", "open"}

\* a call on a remote document whose backend needs a local copy
NeedsLocalCopy ==
    /\ DocCall
    /\ is_gcs_url(file_path)
    /\ backend_of(file_path) \in {"ocr_img", "docx", "msg", "eml"}

(* C20: for a remote document whose backend needs a local copy (png, jpg,
   jpeg, docx, msg, eml), a failed download ends the call: the result is a
   failure record, and neither the OCR service call nor the docx, msg or eml
   parser is invoked in that call. *)
C20_FetchFailureAbortsBeforeBackend ==
    (NeedsLocalCopy /\ Happened("download_to_filename", FALSE)) =>
        /\ Returned
        /\ result.status = "failure"
        /\ \A i \in DOMAIN log : log[i].op \notin LocalCopyBackendOps

\* a returned call on a remote docx document whose download failed
C20_Witness ==
    /\ NeedsLocalCopy /\ Returned
    /\ backend_of(file_path) = "docx"
    /\ Happened("NamedTemporaryFile", TRUE)
    /\ Happened("download_to_filename", FALSE)
    /\ result.status = "failure"

\* the keys of the shared context that doc_ingestion_tool writes
ContextKeys ==
    {"startup_information", "file_path", "file_type", "processing_method",
     "document_analysis", "file_metadata", "content_analysis", "quality_metrics"}

\* the accumulator after a call that appended t to the context s
Appended(s, t) ==
    IF "startup_information" \in DOMAIN s
    THEN s["startup_information"] \o Separator \o t
    ELSE t

(* C21: when doc_ingestion_tool returns a failure record, every key of the
   shared context has the value it had before the call; when it returns a
   success record, the accumulator and the seven sub-record keys hold the
   values of that call: its text appended, its locator, extension and
   method, and the four sub-records of its result. *)
C21_FailureLeavesContext ==
    (DocCall /\ Returned) =>
        /\ result.status \in {"success", "failure"}
        /\ result.status = "failure" => state = pre
        /\ result.status = "success" =>
              /\ DOMAIN state = DOMAIN pre \cup ContextKeys
              /\ state["startup_information"] = Appended(pre, result.extracted_text)
              /\ state["file_path"] = file_path
              /\ state["file_type"] = file_extension(file_path)
              /\ state["processing_method"] =
                    processing_method(backend_of(file_path), is_gcs_url(file_path))
              /\ state["document_analysis"] = result.document_analysis
              /\ state["file_metadata"] = result.file_metadata
              /\ state["content_analysis"] = result.content_analysis
              /\ state["quality_metrics"] = result.quality_metrics

\* a call that failed on the timeout of its batch job, in a session whose
\* context an earlier call had written
C21_Witness ==
    /\ DocCall /\ Returned
    /\ result.status = "failure"
    /\ exc = Timeout
    /\ ContextKeys \subseteq DOMAIN pre
    /\ pre["file_type"] = ".txt"
    /\ state = pre

\* the artifact whose text a returned batch-mode call took
ArtifactRead == listing[FirstJson(listing)]

\* a returned call that took its text from an artifact in storage
ReadAnArtifact ==
    /\ tool = "doc_ingestion_tool" /\ Returned
    /\ result.status = "success"
    /\ FirstJson(listing) # 0

(* C22: in batch mode the text returned for a document is that of an artifact
   written by the job this invocation submitted: over any sequence of
   batch-mode invocations on the same holding bucket or the same remote
   folder, a call never returns the text of an artifact that an earlier job
   left or that belongs to another document. *)
C22_TextIsOfOwnJob ==
    ReadAnArtifact =>
        /\ ArtifactRead.job = calls
        /\ ArtifactRead.dir = OutputLocation(file_path).dir

\* the invocations that returned a success record
Succeeded == {w \in DOMAIN workers : workers[w].pc = "done" /\ workers[w].status = "success"}

\* every invocation has returned
AllReturned == \A w \in DOMAIN workers : workers[w].pc = "done"

\* the caller let no invocation start while another was running
Serialized == \A w \in DOMAIN workers : ~workers[w].overlapped

\* the accumulator holds the text of the invocation w
Holds(w) ==
    /\ "startup_information" \in DOMAIN state
    /\ In(WorkerText(w), state["startup_information"])

(* C23: the accumulator append is a membership test, a read, a concatenation
   and a write without synchronization.  When the caller serializes the
   invocations no text is lost: the accumulator holds the text of every
   invocation that returned a success record.  (That invocations which run
   at the same time can all succeed while the accumulator lacks the text of
   one of them is the reachable state C23_Witness.) *)
C23_SerializedLosesNothing ==
    Serialized => \A w \in Succeeded : Holds(w)

\* a lost update: two invocations that ran at the same time both returned a
\* success record and the accumulator lacks the text of one of them
C23_Witness ==
    /\ AllReturned
    /\ ~Serialized
    /\ Cardinality(Succeeded) >= 2
    /\ \E w \in Succeeded : ~Holds(w)

\* the calls of the size query, which precedes the dispatch
SizeOps == {"os.path.getsize", "storage.Client", "blob.size"}

\* the calls by which a remote document is fetched into a scratch file
FetchOps == {"storage.Client", "NamedTemporaryFile", "download_to_filename"}

\* the calls of the backend that the fixed table gives an extension
TableOps(ext) ==
    CASE ext \in {".pdf", ".tiff"} ->
            {"DocumentProcessorServiceClient", "open", "process_document",
             "storage.Client", "download_as_text"} \cup BatchOps
      [] ext \in {".png", ".jpg", ".jpeg"} ->
            {"DocumentProcessorServiceClient", "open", "process_document"} \cup FetchOps
      [] ext = ".docx" -> {"docx.Document"} \cup FetchOps
      [] ext = ".msg" -> {"extract_msg.Message"} \cup FetchOps
      [] ext = ".eml" -> {"open", "email.message_from_bytes"} \cup FetchOps
      [] ext = ".txt" -> {"open", "storage.Client", "download_as_text"}

\* the calls that run a backend on a document
ExtractionOps ==
    {"process_document", "docx.Document", "extract_msg.Message",
     "email.message_from_bytes", "download_as_text", "open", "download_to_filename",
     "NamedTemporaryFile", "DocumentProcessorServiceClient"}

SupportedCall == DocCall /\ file_extension(file_path) \in Range(supported_formats)

(* C24: an invocation on a supported extension, in any letter case and from
   either origin, runs the one backend the fixed table gives the extension
   and returns one result; a backend other than the pdf/tiff OCR executor is
   invoked at most once, and when one of its calls raises the result is a
   failure record: nothing is retried and no other backend is tried. *)
C24_OneBackendNoRetry ==
    SupportedCall =>
        LET ext == file_extension(file_path) IN
        /\ \A i \in DOMAIN log : log[i].op \in SizeOps \cup TableOps(ext)
        /\ ext \notin {".pdf", ".tiff"} =>
              /\ \A op \in ExtractionOps : Count(op) <= 1
              /\ (\E i \in DOMAIN log : log[i].op \in ExtractionOps /\ ~log[i].ok) =>
                    (Returned /\ result.status = "failure"
                     /\ \A i \in 1..(Len(log) - 1) : log[i].op \in ExtractionOps => log[i].ok)
        /\ Returned =>
              /\ result.status \in {"success", "failure"}
              /\ (result.status = "success") <=> ("extracted_text" \in DOMAIN result)

\* a returned call on a .msg file whose parser raised: one parser call, a
\* failure record
C24_Witness ==
    /\ SupportedCall /\ Returned
    /\ file_extension(file_path) = ".msg"
    /\ Count("extract_msg.Message") = 1
    /\ Happened("extract_msg.Message", FALSE)
    /\ result.status = "failure"

----------------------------------------------------------------------------
(* Language detection, title and readability *)

Languages == {"english", "spanish", "french"}

\* the language's count is strictly greater than both other counts
StrictlyAhead(language, t) ==
    \A other \in Languages \ {language} :
        stop_word_count(language, t) > stop_word_count(other, t)

(* C25: language detection is a majority vote over the three stop-word match
   counts: the result is a language only when its count is strictly greater
   than both other counts; when the highest count is shared by two or three
   languages, or all three counts are zero, the result is "unknown". *)
C25_StrictMajorityElseUnknown ==
    \A i \in RunsOf("_detect_language") :
        LET t == runs[i].args[1]
        IN  /\ \A language \in Languages :
                   runs[i].out = language => StrictlyAhead(language, t)
            /\ (\A language \in Languages : ~StrictlyAhead(language, t))
                   => runs[i].out = "unknown"

\* the lines of the text the title may be: those of the first 10 whose
\* stripped length L has 10 <= L < 100 and which are not fully upper-case
Eligible(t) ==
    LET all == split_lines(t)
    IN  {i \in 1..Min(10, Len(all)) :
            /\ 10 <= Len(strip(all[i]))
            /\ Len(strip(all[i])) < 100
            /\ ~isupper(strip(all[i]))}

(* C26: the generated title is the first line, among the first 10 lines of
   the text, whose stripped length L satisfies 10 <= L < 100 and which is not
   fully upper-case (a line of exactly 10 characters qualifies, one of
   exactly 100 does not); without such a line the title is the file name
   without its extension. *)
C26_TitleIsFirstEligibleLine ==
    \A i \in RunsOf("_generate_document_title") :
        LET t == runs[i].args[1]
            fname == runs[i].args[2]
        IN  IF Eligible(t) = {} THEN runs[i].out = <<fname[1]>>
            ELSE runs[i].out =
                     strip(split_lines(t)[CHOOSE k \in Eligible(t) :
                                             \A j \in Eligible(t) : k <= j])

\* the sentence count _analyze_document_content reports: the fragments
\* between '.', '!' and '?' that are not empty
reported_sentence_count(t) == count_nonblank(pieces(t, {".", "!", "?"}))

\* 0.5 * (words / sentences) + 0.3 * (letters / words), in hundredths
ReadabilityFormula(words, sentences, letters) ==
    (2 * (50 * words * words + 30 * letters * sentences) + sentences * words)
        \div (2 * sentences * words)

(* C27: the readability score is 0 whenever the text has no sentences (the
   reported sentence_count, which leaves the empty fragments out, is 0) or no
   words; otherwise it is 0.5 * (word count / sentence count) + 0.3 *
   (average characters per word), the sentence count being the count of
   non-empty fragments that is reported as sentence_count. *)
C27_ReadabilityUsesReportedCount ==
    \A i \in RunsOf("_calculate_readability") :
        LET t == runs[i].args[1]
            words == Len(split(t))
            sentences == reported_sentence_count(t)
        IN  runs[i].out =
                IF sentences = 0 \/ words = 0 THEN 0
                ELSE ReadabilityFormula(words, sentences, Len(t) - count(t, Blanks))

----------------------------------------------------------------------------
(* Processing confidence *)

\* the weight of the method family of each backend, in hundredths
FamilyWeight(backend) ==
    CASE backend \in {"ocr_pdf", "ocr_img"} -> 95
      [] backend = "docx" -> 98
      [] backend = "msg" -> 90
      [] backend = "eml" -> 85
      [] backend = "txt" -> 99

(* C29: for every supported extension and both origins, the
   processing_confidence of the file metadata of a successful
   doc_ingestion_tool call is the weight of the method family of the backend
   that was selected (0.95 Document AI, 0.98 python-docx, 0.90 extract-msg,
   0.85 Python email library, 0.99 direct text reading), the "(from GCS)"
   variants of the method name included; the default 0.80 is never produced. *)
C29_ConfidenceIsFamilyWeight ==
    (DocCall /\ Returned /\ result.status = "success"
        /\ "processing_confidence" \in DOMAIN result.file_metadata) =>
        /\ result.file_metadata.processing_confidence = FamilyWeight(backend_of(file_path))
        /\ result.file_metadata.processing_confidence # 80

\* a remote PDF read by Document AI straight from object storage, whose
\* method name is "Google Cloud Document AI (PDF/TIFF from GCS)"
C29_Witness ==
    /\ DocCall /\ Returned /\ result.status = "success"
    /\ is_gcs_url(file_path)
    /\ result.file_metadata.processing_method = "Google Cloud Document AI (PDF/TIFF from GCS)"
    /\ result.file_metadata.processing_confidence = 95

----------------------------------------------------------------------------
(* File hash *)

\* the call that returned ingested again the document of the call before it:
\* the same locator, the same size, read by the size query, and the same
\* content, which is not empty, both calls having produced a hash
SameDocumentAgain ==
    /\ DocCall /\ Returned /\ result.status = "success"
    /\ result.extracted_text # <<>>
    /\ result.file_metadata.file_size_bytes = DocumentBytes
    /\ {"file_path", "file_metadata", "startup_information"} \subseteq DOMAIN pre
    /\ pre["file_path"] = file_path
    /\ pre["startup_information"] = result.extracted_text
    /\ "file_hash" \in DOMAIN pre["file_metadata"]
    /\ "file_hash" \in DOMAIN result.file_metadata
    /\ pre["file_metadata"].file_size_bytes = result.file_metadata.file_size_bytes

(* C28: the file_hash of the file metadata is a content hash: two ingestions
   of the same unchanged document (same locator, same content, same size)
   produce the same file_hash, which does not depend on the time of the call
   or on earlier calls. *)
C28_SameDocumentSameHash ==
    SameDocumentAgain =>
        result.file_metadata.file_hash = pre["file_metadata"].file_hash

----------------------------------------------------------------------------
(* Scratch copy of audio_analysis_tool *)

AudioCall == tool = "audio_analysis_tool" /\ file_path \in AudioLocators

\* the scratch files the returned call made
OwnScratch == {f \in scratch : f.call = calls}

(* C30: the scratch copy that audio_analysis_tool downloads for a remote
   audio file is released whatever the outcome: on every way out of the call
   (download failure, upload failure, generation failure, success) the local
   scratch file the call created no longer exists when the call returns. *)
C30_AudioScratchReleased ==
    (AudioCall /\ Returned /\ is_gcs_url(file_path)) => OwnScratch = {}

============================================================================
